---- MODULE Spec2Model ----
(***************************************************************************)
(* Per-connection orchestration of the voice gateway:                      *)
(*   src/services/wsHandler.js     handleConnection and its closures       *)
(*   src/services/llmService.js    cancel, synthesis queue, generation     *)
(*   src/services/speechService.js detectVoiceActivity, textToSpeech       *)
(* One connection is modelled.  Every await of the source is a task that   *)
(* is suspended in a variable (gens, tts, stops) and resumed by an action; *)
(* the synchronous stretch between two awaits is one atomic step, as on    *)
(* the single-threaded event loop.                                         *)
(***************************************************************************)
EXTENDS Integers, Sequences, FiniteSets, TLC

\* ------------------------------------------------------------------ bounds
\* callLLM invocations per connection
MaxTurns == 2
\* callLLM invocations per connection where every teardown trigger is explored
LifeTurns == 1
\* callLLM invocations per connection where abort() and close() may throw
FaultTurns == 1
\* callLLM invocations per connection where whitespace chunks are delivered
SegTurns == 1
\* chunks one generation stream delivers where whitespace chunks are delivered
SegChunks == 3
\* callLLM invocations per connection where two connections run side by side
PairTurns == 1
\* chunks one generation stream delivers where two connections run side by side
PairChunks == 2
\* chunks one generation stream delivers
MaxChunks == 2
\* textToSpeech requests in flight at once
MaxSynth == 2
\* entries appended to the history between two clears (history harness)
MaxAppends == 13
\* heartbeat probes sent without a pong in between
MaxUnanswered == 2
\* provider instances the registry creates in all (provider harness)
MaxMade == 9
\* sockets one WebSocketClient creates (client harness)
MaxClientSockets == 8
\* calls of WebSocketClient.close() (client harness)
MaxCloses == 2
\* audio chunks the page receives (player harness)
MaxReceived == 3
\* interrupt signals the page receives (player harness)
MaxInterruptions == 2
\* longest frame of the voice-activity harness whose bytes are all enumerated
VadShortLen == 4
\* samples that fill the front of a long frame of the voice-activity harness
VadFill == 98

\* ------------------------------------------------------- program constants
\* this.maxReconnectAttempts of WebSocketClient
maxReconnectAttempts == 5
\* the base and the cap of the reconnect delay, and the connection timeout, ms
ReconnectBaseMs == 1000
ReconnectCapMs == 30000
MAX_CONVERSATION_HISTORY == 10
voiceDetectionThreshold == 300
\* Math.min(buffer.length, 200): the leading window, in bytes
VadWindowBytes == 200

\* ------------------------------------------------------------ value spaces
\* null / undefined handle
Null == 0

\* delta.content of a stream chunk: text without a terminator, text with a
\* terminator of config.patterns.sentenceEnd, and no content
Chunks == {"a", "b.", ""}

\* e.result.text of a recognition event
Texts == {"", "hi"}

\* inbound binary frames, as byte sequences (little-endian 16-bit samples)
\* <<0, 0>> is silence, <<0, 2>> one sample of 512, <<0, 128, 0, 2>> the
\* samples -32768 and 512
Frames == { <<>>, <<7>>, <<0, 0>>, <<0, 2>>, <<0, 2, 9>>, <<0, 128, 0, 2>> }

\* the well-formed frames among them: one silent, one above the threshold
SpeechFrames == { <<0, 0>>, <<0, 2>> }

\* outcomes of the HTTP request of textToSpeech
TtsOutcomes == {"audio", "notOk", "empty", "throw"}

SystemTurn == [role |-> "system", turn |-> 0, content |-> <<"prompt">>]

\* ---------------------------------------------------------------- state
VARIABLES
  ws,          \* the fields the code keeps on the WebSocket object
  pushStream,  \* closure variable of handleConnection: TRUE when non-null
  recognizer,  \* closure variable of handleConnection: "open" or "null"
  setup,       \* startContinuousRecognition: "starting", "ready", "failed"
  readyState,  \* ws.readyState: "OPEN", "CLOSING", "CLOSED"
  pingInterval,\* TRUE while the heartbeat interval is armed
  gens,        \* callLLM invocations, in start order
  tts,         \* processNextTTS invocations awaiting textToSpeech
  stops,       \* cleanupResources invocations awaiting stopRecognizer
  hist,        \* what happened so far, for stating the properties
  ev,          \* the last step: operation, argument, frames sent, result
  activeConnections, \* module variable of wsHandler.js: the connections added
  peer,        \* a second connection: its fields and closure variables
  registry,    \* the serviceRegistry singleton, config.services, last API response
  client,      \* a WebSocketClient of the page, its sockets and its timers
  player       \* an AudioHandler of the page: queue, flags, decodes, sources

vars == <<ws, pushStream, recognizer, setup, readyState, pingInterval,
          gens, tts, stops, hist, ev, activeConnections, peer, registry,
          client, player>>

\* ---------------------------------------------------------------- helpers
Min(a, b) == IF a < b THEN a ELSE b

Abs(x) == IF x < 0 THEN -x ELSE x

RemoveAt(s, i) == SubSeq(s, 1, i - 1) \o SubSeq(s, i + 1, Len(s))

\* ws.send(Buffer.from(buffer)): the audio of one sentence
AudioFrame(sentence) ==
  [kind |-> "binary", type |-> "", payload |-> sentence]

\* createMessage(type, payload): the canonical envelope
createMessage(type, payload) ==
  [kind |-> "text", type |-> type, payload |-> payload]

\* JSON.stringify({ error: message, details }): no type field
ErrorObject(message) ==
  [kind |-> "text", type |-> "", payload |-> <<message>>]

\* which of controller.abort() and synthesizer.close() throw when called
NoFault == [abort |-> FALSE, close |-> FALSE]

Faults == [abort : BOOLEAN, close : BOOLEAN]

\* The world a handler runs in: the session, the suspended tasks, and what
\* the running step has done so far: frames sent to the client (out), calls
\* of cancelOngoingActivities (cancels), frames written to the push stream
\* (wrote) and its result (ret): the value returned, or how the awaited
\* request ended.  id names the connection the handler belongs to: this one
\* is 1, the second connection is 2.  fault says which of the calls cancel
\* makes throw in this step.
World ==
  [ws |-> ws, gens |-> gens, tts |-> tts, hist |-> hist,
   pushStream |-> pushStream, recognizer |-> recognizer, stops |-> stops,
   id |-> 1, activeConnections |-> activeConnections,
   fault |-> NoFault,
   out |-> <<>>, cancels |-> <<>>, wrote |-> <<>>, ret |-> "none"]

\* Is anything of a turn in flight?
Busy(w) ==
  \/ w.ws.llmStream # Null
  \/ w.ws.ttsPendingSentences # <<>>
  \/ w.ws.processingTTS
  \/ w.tts # <<>>
  \/ \E k \in 1..Len(w.gens) : w.gens[k].pc # "done"

\* ------------------------------------------------------- llmService.js

\* sendToClient(ws, data), also wsHandler.js sendToClient(data)
sendToClient(w, data) ==
  IF ~w.ws.connectionActive THEN w
  ELSE [w EXCEPT !.out = Append(@, data)]

\* the record of one call of cancelOngoingActivities: its argument, whether
\* the session was idle, the speaking flag and the number of frames the step
\* had written when it ran, the errors its catch blocks absorbed, and whether
\* an error escaped it
CancelCall(w, sendInterrupt, threw) ==
  [notify |-> sendInterrupt, idle |-> ~Busy(w),
   speaking |-> w.ws.isUserSpeaking, wrote |-> Len(w.wrote),
   caught |-> (IF w.fault.abort /\ w.ws.llmStream # Null THEN 1 ELSE 0)
              + (IF w.fault.close /\ w.ws.currentSynthesizer # Null THEN 1 ELSE 0),
   threw |-> threw]

\* cancelOngoingActivities without its try/catch blocks: the first error of
\* abort() or close() escapes and the rest of the function does not run
cancelOngoingActivities_NoCatch(w, sendInterrupt) ==
  IF w.fault.abort /\ w.ws.llmStream # Null
  THEN [w EXCEPT !.cancels = Append(@, CancelCall(w, sendInterrupt, TRUE))]
  ELSE LET w0 == [w EXCEPT !.cancels = Append(@, CancelCall(w, sendInterrupt,
                                 w.fault.close /\ w.ws.currentSynthesizer # Null)),
                           !.hist.interrupted = @ \/ Len(w.gens) > 0]
           w1 == IF w0.ws.llmStream # Null
                 THEN [w0 EXCEPT !.gens[w0.ws.llmStream].aborted = TRUE,
                                 !.ws.llmStream = Null]
                 ELSE w0
       IN  IF w.fault.close /\ w.ws.currentSynthesizer # Null
           THEN w1
           ELSE LET w3 == [w1 EXCEPT !.ws.currentSynthesizer = Null,
                                     !.ws.ttsPendingSentences = <<>>,
                                     !.ws.processingTTS = FALSE]
                IN  IF sendInterrupt /\ w3.ws.connectionActive
                    THEN sendToClient(w3, createMessage("interrupt", <<>>))
                    ELSE w3

\* cancelOngoingActivities without `ws.ttsPendingSentences.length = 0`
cancelOngoingActivities_KeepsQueue(w, sendInterrupt) ==
  LET w0 == [w EXCEPT !.cancels = Append(@, CancelCall(w, sendInterrupt, FALSE)),
                      !.hist.interrupted = @ \/ Len(w.gens) > 0]
      w1 == IF w0.ws.llmStream # Null
            THEN [w0 EXCEPT !.gens[w0.ws.llmStream].aborted = TRUE,
                            !.ws.llmStream = Null]
            ELSE w0
      w3 == [w1 EXCEPT !.ws.currentSynthesizer = Null,
                       !.ws.processingTTS = FALSE]
  IN  IF sendInterrupt /\ w3.ws.connectionActive
      THEN sendToClient(w3, createMessage("interrupt", <<>>))
      ELSE w3

\* cancelOngoingActivities(ws, sendInterrupt); w.cancels and hist.interrupted
\* record the call.  An abort() that throws is caught and leaves the stream
\* as it was; a close() that throws is caught; both handles are cleared.
cancelOngoingActivities(w, sendInterrupt) ==
  LET w0 == [w EXCEPT !.cancels = Append(@, CancelCall(w, sendInterrupt, FALSE)),
                      !.hist.interrupted = @ \/ Len(w.gens) > 0]
      w1 == IF w0.ws.llmStream # Null
            THEN [w0 EXCEPT !.gens[w0.ws.llmStream].aborted = @ \/ ~w.fault.abort,
                            !.ws.llmStream = Null]
            ELSE w0
      w2 == IF w1.ws.currentSynthesizer # Null
            THEN [w1 EXCEPT !.ws.currentSynthesizer = Null]
            ELSE w1
      w3 == [w2 EXCEPT !.ws.ttsPendingSentences = <<>>,
                       !.ws.processingTTS = FALSE]
  IN  IF sendInterrupt /\ w3.ws.connectionActive
      THEN sendToClient(w3, createMessage("interrupt", <<>>))
      ELSE w3

\* cleanupSynthesizer(ws) of speechService.js
cleanupSynthesizer(w) ==
  IF w.ws.currentSynthesizer # Null
  THEN [w EXCEPT !.ws.currentSynthesizer = Null]
  ELSE w

\* textToSpeech(text, ws) up to its await of fetch: the request is in flight
textToSpeechStart(w, text) ==
  LET w1 == cleanupSynthesizer(w)
  IN  [w1 EXCEPT !.tts = Append(@, [text |-> text]),
                 !.hist.synthLog = Append(@, text)]

\* processNextTTS(ws) up to its await of textToSpeech
processNextTTS(w) ==
  IF \/ Len(w.ws.ttsPendingSentences) = 0
     \/ w.ws.llmStream = Null
     \/ ~w.ws.connectionActive
  THEN [w EXCEPT !.ws.processingTTS = FALSE]
  ELSE textToSpeechStart([w EXCEPT !.ws.processingTTS = TRUE],
                         Head(w.ws.ttsPendingSentences))

\* initConversationHistory(ws): <<>> stands for undefined / null
initConversationHistory(h) ==
  IF h = <<>> THEN <<SystemTurn>> ELSE h

\* addToConversationHistory with splice(0, 1) for splice(1, 1)
addToConversationHistory_EvictsFirst(h, entry) ==
  LET pushed == Append(initConversationHistory(h), entry)
  IN  IF Len(pushed) > MAX_CONVERSATION_HISTORY + 1
      THEN Tail(pushed)
      ELSE pushed

\* addToConversationHistory(ws, role, content)
addToConversationHistory(h, entry) ==
  LET pushed == Append(initConversationHistory(h), entry)
  IN  IF Len(pushed) > MAX_CONVERSATION_HISTORY + 1
      THEN <<pushed[1]>> \o SubSeq(pushed, 3, Len(pushed))
      ELSE pushed

\* clearConversationHistory(ws)
clearConversationHistory(w) ==
  sendToClient(
    [w EXCEPT !.ws.conversationHistory = IF @ # <<>> THEN <<@[1]>> ELSE <<>>],
    createMessage("conversationCleared", <<"true">>))

\* getConversationHistory(ws)
getConversationHistory(w) ==
  [w EXCEPT !.ws.conversationHistory = initConversationHistory(@)]

\* sentenceEnd.test(content): content holds one of the terminators of
\* config.patterns.sentenceEnd
sentenceEndTest(content) == content \in {"b."}

\* s.trim() of a chunk: the empty string when it is whitespace only
TrimIsEmpty(text) == \A i \in 1..Len(text) : text[i] \in {" ", ""}

\* enqueueSentence without `currentSentence = ''`
enqueueSentence_KeepsBuffer(w, k) ==
  LET s  == [turn |-> k, n |-> w.gens[k].sn + 1, text |-> w.gens[k].cur]
      w1 == [w EXCEPT !.ws.ttsPendingSentences = Append(@, s),
                      !.gens[k].sn = @ + 1,
                      !.hist.enqLog = Append(@, s)]
  IN  IF Len(w1.ws.ttsPendingSentences) = 1 /\ ~w1.ws.processingTTS
      THEN processNextTTS(w1)
      ELSE w1

\* ws.ttsPendingSentences.push(currentSentence), then the start of synthesis
\* when the queue was empty and nothing is being processed
enqueueSentence(w, k) ==
  LET s  == [turn |-> k, n |-> w.gens[k].sn + 1, text |-> w.gens[k].cur]
      w1 == [w EXCEPT !.ws.ttsPendingSentences = Append(@, s),
                      !.gens[k].sn = @ + 1,
                      !.gens[k].cur = <<>>,
                      !.hist.enqLog = Append(@, s)]
  IN  IF Len(w1.ws.ttsPendingSentences) = 1 /\ ~w1.ws.processingTTS
      THEN processNextTTS(w1)
      ELSE w1

\* A finished callLLM invocation keeps no locals.
DoneGen(g) ==
  [pc |-> "done", full |-> <<>>, cur |-> <<>>, n |-> 0, sn |-> 0,
   aborted |-> g.aborted]

\* streamReturn without addToConversationHistory(ws, "assistant", fullResponse)
streamReturn_NoAssistant(w, k) ==
  [w EXCEPT !.ws.llmStream = Null, !.gens[k] = DoneGen(@)]

\* processLLMStream returns fullResponse: its finally block, then the rest of
\* callLLM's try block
streamReturn(w, k) ==
  LET full == w.gens[k].full
      w1   == [w EXCEPT !.ws.llmStream = Null]
      w2   == IF full # <<>>
              THEN [w1 EXCEPT !.ws.conversationHistory =
                      addToConversationHistory(@,
                        [role |-> "assistant", turn |-> k, content |-> full])]
              ELSE w1
  IN  [w2 EXCEPT !.gens[k] = DoneGen(@)]

\* The for-await body of processLLMStream for one chunk
streamChunk(w, k, content) ==
  IF w.ws.llmStream = Null \/ ~w.ws.connectionActive
  THEN streamReturn(w, k)
  ELSE IF content = ""
  THEN [w EXCEPT !.gens[k].n = @ + 1]
  ELSE LET w1 == [w EXCEPT !.gens[k].n = @ + 1,
                           !.gens[k].full = Append(@, content),
                           !.gens[k].cur = Append(@, content)]
           w2 == sendToClient(w1, createMessage("llmResponse", w1.gens[k].full))
       IN  IF sentenceEndTest(content) THEN enqueueSentence(w2, k) ELSE w2

\* streamEnd without the push of the last incomplete sentence
streamEnd_DropsRemainder(w, k) == streamReturn(w, k)

\* processLLMStream after the loop: the last incomplete sentence, the return
streamEnd(w, k) ==
  LET w1 == IF ~TrimIsEmpty(w.gens[k].cur) THEN enqueueSentence(w, k) ELSE w
  IN  streamReturn(w1, k)

\* streamThrow without the test of error.name in callLLM's catch block
streamThrow_ReportsAbort(w, k, name) ==
  sendToClient([w EXCEPT !.ws.llmStream = Null, !.gens[k] = DoneGen(@),
                         !.hist.interrupted = TRUE],
               createMessage("error", <<"Error calling language model">>))

\* streamThrow saving the partial response as an assistant turn
streamThrow_KeepsPartial(w, k, name) ==
  LET w1 == streamReturn(w, k)
  IN  IF name = "AbortError" THEN w1
      ELSE sendToClient([w1 EXCEPT !.hist.interrupted = TRUE],
                        createMessage("error", <<"Error calling language model">>))

\* The iteration throws: the finally block of processLLMStream, then the
\* catch block of callLLM
streamThrow(w, k, name) ==
  LET w1 == [w EXCEPT !.ws.llmStream = Null, !.gens[k] = DoneGen(@)]
  IN  IF name = "AbortError" THEN w1
      ELSE sendToClient([w1 EXCEPT !.hist.interrupted = TRUE],
                        createMessage("error", <<"Error calling language model">>))

\* openai.chat.completions.create rejects: the catch block of callLLM
createThrow(w, k) ==
  sendToClient([w EXCEPT !.gens[k] = DoneGen(@), !.hist.interrupted = TRUE],
               createMessage("error", <<"Error calling language model">>))

\* processLLMStream up to its first await: ws.llmStream = stream
streamOpen(w, k) ==
  [w EXCEPT !.ws.llmStream = k, !.gens[k].pc = "streaming"]

\* callLLM(text, ws) up to its await of the create call
callLLM(w, text) ==
  IF text = "" \/ ~w.ws.connectionActive THEN w
  ELSE LET k  == Len(w.gens) + 1
           w1 == cancelOngoingActivities(w, FALSE)
       IN  [w1 EXCEPT
              !.ws.conversationHistory =
                 addToConversationHistory(initConversationHistory(@),
                   [role |-> "user", turn |-> k, content |-> <<text>>]),
              !.gens = Append(@, [pc |-> "creating", full |-> <<>>, cur |-> <<>>,
                                  n |-> 0, sn |-> 0, aborted |-> FALSE])]

\* ----------------------------------------------------- speechService.js

\* buffer.readInt16LE(i), i counted from 0
readInt16LE(buffer, i) ==
  LET u == buffer[i + 1] + 256 * buffer[i + 2]
  IN  IF u >= 32768 THEN u - 65536 ELSE u

RECURSIVE SumAbs(_, _, _)
SumAbs(buffer, i, sampleSize) ==
  IF i >= sampleSize THEN 0
  ELSE Abs(readInt16LE(buffer, i)) + SumAbs(buffer, i + 2, sampleSize)

\* detectVoiceActivity averaging over the whole buffer instead of the window
detectVoiceActivity_WholeBuffer(buffer) ==
  IF Len(buffer) < 2 THEN FALSE
  ELSE LET sampleSize == Len(buffer)
       IN  IF sampleSize % 2 = 1 THEN FALSE
           ELSE 2 * SumAbs(buffer, 0, sampleSize) > voiceDetectionThreshold * sampleSize

\* detectVoiceActivity(buffer); a read past the end throws and yields false
detectVoiceActivity(buffer) ==
  IF Len(buffer) < 2 THEN FALSE
  ELSE LET sampleSize == Min(Len(buffer), VadWindowBytes)
       IN  IF sampleSize % 2 = 1 THEN FALSE
           ELSE 2 * SumAbs(buffer, 0, sampleSize) > voiceDetectionThreshold * sampleSize

\* sendErrorToClient(ws, message, details)
sendErrorToClient(w, message) ==
  IF ~w.ws.connectionActive THEN w
  ELSE [w EXCEPT !.out = Append(@, ErrorObject(message))]

\* textToSpeech after its await without `if (ws.connectionActive)` around
\* ws.send
textToSpeechFinish_SendsAlways(w, text, outcome) ==
  IF outcome = "audio"
  THEN [w EXCEPT !.out = Append(@, AudioFrame(text))]
  ELSE sendErrorToClient([w EXCEPT !.hist.interrupted = TRUE],
                         "Speech synthesis error")

\* textToSpeech(text, ws) after its await of fetch
textToSpeechFinish(w, text, outcome) ==
  IF outcome = "audio"
  THEN IF w.ws.connectionActive
       THEN [w EXCEPT !.out = Append(@, AudioFrame(text))]
       ELSE w
  ELSE sendErrorToClient([w EXCEPT !.hist.interrupted = TRUE],
         CASE outcome = "notOk" -> "Speech synthesis failed"
           [] outcome = "empty" -> "Speech synthesis returned empty response"
           [] OTHER -> "Speech synthesis error")

\* processNextTTS(ws) after its await of textToSpeech
processNextTTSResume(w) ==
  LET w1 == [w EXCEPT !.ws.ttsPendingSentences =
                        IF @ = <<>> THEN <<>> ELSE Tail(@)]
  IN  IF Len(w1.ws.ttsPendingSentences) > 0 /\ w1.ws.connectionActive
      THEN processNextTTS(w1)
      ELSE [w1 EXCEPT !.ws.processingTTS = FALSE]

\* --------------------------------------------------------- wsHandler.js

\* processAudioData returning right after the barge-in cancel
processAudioData_DropsBargeInFrame(w, data) ==
  IF Len(data) = 0 \/ ~w.ws.connectionActive
  THEN [w EXCEPT !.ret = "false"]
  ELSE IF Len(data) >= 2 /\ Len(data) % 2 = 0
  THEN IF detectVoiceActivity(data) /\ ~w.ws.isUserSpeaking
       THEN [cancelOngoingActivities([w EXCEPT !.ws.isUserSpeaking = TRUE], TRUE)
               EXCEPT !.ret = "true"]
       ELSE IF w.pushStream
       THEN [w EXCEPT !.wrote = Append(@, data), !.ret = "true"]
       ELSE [w EXCEPT !.ret = "false"]
  ELSE [w EXCEPT !.ret = "false"]

\* processAudioData writing the frame before the voice-activity check
processAudioData_WritesFirst(w, data) ==
  IF Len(data) = 0 \/ ~w.ws.connectionActive
  THEN [w EXCEPT !.ret = "false"]
  ELSE IF Len(data) >= 2 /\ Len(data) % 2 = 0 /\ w.pushStream
  THEN LET w1 == [w EXCEPT !.wrote = Append(@, data), !.ret = "true"]
       IN  IF detectVoiceActivity(data) /\ ~w.ws.isUserSpeaking
           THEN cancelOngoingActivities(
                  [w1 EXCEPT !.ws.isUserSpeaking = TRUE], TRUE)
           ELSE w1
  ELSE [w EXCEPT !.ret = "false"]

\* processAudioData without the `buffer.length % 2 === 0` test
processAudioData_AcceptsOdd(w, data) ==
  IF Len(data) = 0 \/ ~w.ws.connectionActive
  THEN [w EXCEPT !.ret = "false"]
  ELSE IF w.pushStream
  THEN [w EXCEPT !.wrote = Append(@, data), !.ret = "true"]
  ELSE [w EXCEPT !.ret = "false"]

\* processAudioData(data)
processAudioData(w, data) ==
  IF Len(data) = 0 \/ ~w.ws.connectionActive
  THEN [w EXCEPT !.ret = "false"]
  ELSE IF Len(data) >= 2 /\ Len(data) % 2 = 0
  THEN LET w1 == IF detectVoiceActivity(data) /\ ~w.ws.isUserSpeaking
                 THEN cancelOngoingActivities(
                        [w EXCEPT !.ws.isUserSpeaking = TRUE], TRUE)
                 ELSE w
       IN  IF w1.pushStream
           THEN [w1 EXCEPT !.wrote = Append(@, data), !.ret = "true"]
           ELSE [w1 EXCEPT !.ret = "false"]
  ELSE [w EXCEPT !.ret = "false"]

\* recognizer.recognizing without the test of ws.connectionActive
recognizing_OnInactive(w, text) ==
  IF text # ""
  THEN sendToClient(cancelOngoingActivities(w, TRUE),
                    createMessage("partialTranscription", <<text>>))
  ELSE w

\* recognizer.recognizing
recognizing(w, text) ==
  IF text # "" /\ w.ws.connectionActive
  THEN sendToClient(cancelOngoingActivities(w, TRUE),
                    createMessage("partialTranscription", <<text>>))
  ELSE w

\* recognizer.recognized relaying the transcription before it cancels
recognized_RelaysFirst(w, text) ==
  IF text # "" /\ w.ws.connectionActive
  THEN callLLM(cancelOngoingActivities(
                 sendToClient(w, createMessage("transcription", <<text>>)), TRUE),
               text)
  ELSE w

\* recognizer.recognized without the test of e.result.text
recognized_IgnoresEmpty(w, text) ==
  IF w.ws.connectionActive
  THEN callLLM(sendToClient(cancelOngoingActivities(w, TRUE),
                            createMessage("transcription", <<text>>)),
               text)
  ELSE w

\* recognizer.recognized
recognized(w, text) ==
  IF text # "" /\ w.ws.connectionActive
  THEN callLLM(sendToClient(cancelOngoingActivities(w, TRUE),
                            createMessage("transcription", <<text>>)),
               text)
  ELSE w

\* closeRecognizer() calling recognizer.close() without `if (recognizer)`
closeRecognizer_Unguarded(w) ==
  [w EXCEPT !.recognizer = "null", !.hist.closes = @ + 1]

\* closeRecognizer(); hist.closes counts the calls of recognizer.close()
closeRecognizer(w) ==
  IF w.recognizer # "null"
  THEN [w EXCEPT !.recognizer = "null", !.hist.closes = @ + 1]
  ELSE w

\* cleanupResources() after its await of stopRecognizer
cleanupResourcesResume(w) ==
  cancelOngoingActivities(
    [w EXCEPT !.pushStream = FALSE, !.recognizer = "null"], FALSE)

\* cleanupResources() with activeConnections.clear() for activeConnections.delete(ws)
cleanupResources_ClearsSet(w) ==
  LET w1 == [w EXCEPT !.ws.connectionActive = FALSE,
                      !.activeConnections = {},
                      !.hist.interrupted = TRUE,
                      !.hist.cleanups = @ + 1]
  IN  IF w1.recognizer = "null"
      THEN cleanupResourcesResume(w1)
      ELSE [w1 EXCEPT !.stops = Append(@, "pending")]

\* cleanupResources() up to its await; stopRecognizer() returns at once when
\* there is no recognizer, and otherwise waits for the SDK or its timeout.
\* hist.cleanups counts the invocations.
cleanupResources(w) ==
  LET w1 == [w EXCEPT !.ws.connectionActive = FALSE,
                      !.activeConnections = @ \ {w.id},
                      !.hist.interrupted = TRUE,
                      !.hist.cleanups = @ + 1]
  IN  IF w1.recognizer = "null"
      THEN cleanupResourcesResume(w1)
      ELSE [w1 EXCEPT !.stops = Append(@, "pending")]

\* ------------------------------------------ serviceRegistry and the API

\* the services the change endpoint accepts
Capabilities == {"asr", "tts", "llm"}

\* this.asr = null: no provider instance
NoProvider == [name |-> "", serial |-> 0]

\* the services block of a response, absent
NoServices == [c \in Capabilities |-> ""]

\* no response sent yet
NoResponse == [status |-> 0, success |-> FALSE, services |-> NoServices,
               activeConnections |-> 0]

\* the methods class ServiceRegistry defines
ServiceRegistryMethods ==
  {"initialize", "initializeProviders", "createProvider",
   "setASRProvider", "setTTSProvider", "setLLMProvider",
   "registerASRProvider", "registerTTSProvider", "registerLLMProvider",
   "getASR", "getTTS", "getLLM"}

\* the method the change endpoint calls for a service
changeMethod(service) ==
  IF service = "asr" THEN "changeASRProvider"
  ELSE IF service = "tts" THEN "changeTTSProvider"
  ELSE "changeLLMProvider"

\* set*Provider assigning the outcome of createProvider whatever it is, so that
\* a failure clears the active instance
setProvider_ClearsOnFailure(reg, cap, type, initOk) ==
  IF type \notin reg.providers[cap] \/ ~initOk
  THEN [reg EXCEPT !.thrown = TRUE, !.active[cap] = NoProvider]
  ELSE [reg EXCEPT !.active[cap] = [name |-> type, serial |-> reg.made + 1],
                   !.made = @ + 1]

\* setASRProvider, setTTSProvider, setLLMProvider with createProvider: the
\* class must be registered and the new instance's initialize must succeed
\* (initOk), else the error is rethrown and the active instance is kept
setProvider(reg, cap, type, initOk) ==
  IF type \notin reg.providers[cap] \/ ~initOk
  THEN [reg EXCEPT !.thrown = TRUE]
  ELSE [reg EXCEPT !.active[cap] = [name |-> type, serial |-> reg.made + 1],
                   !.made = @ + 1]

\* serviceRegistry[method](providerType): calling a property the class does not
\* define throws a TypeError
callRegistry(reg, method, providerType, initOk) ==
  IF method \notin ServiceRegistryMethods THEN [reg EXCEPT !.thrown = TRUE]
  ELSE IF method = "setASRProvider" THEN setProvider(reg, "asr", providerType, initOk)
  ELSE IF method = "setTTSProvider" THEN setProvider(reg, "tts", providerType, initOk)
  ELSE IF method = "setLLMProvider" THEN setProvider(reg, "llm", providerType, initOk)
  ELSE reg

\* initializeProviders(): the three providers in turn, stopping at a throw
initializeProviders(reg, okAsr, okTts, okLlm) ==
  LET r1 == setProvider(reg, "asr", reg.config.asr, okAsr)
      r2 == IF r1.thrown THEN r1 ELSE setProvider(r1, "tts", r1.config.tts, okTts)
  IN  IF r2.thrown THEN r2 ELSE setProvider(r2, "llm", r2.config.llm, okLlm)

\* getASR(), getTTS(), getLLM()
getProvider(reg, cap) == reg.active[cap]

\* registerASRProvider, registerTTSProvider, registerLLMProvider
registerProvider(reg, cap, type) ==
  [reg EXCEPT !.providers[cap] = @ \cup {type}]

\* app.get('/api/status')
statusEndpoint(reg, connections) ==
  [reg EXCEPT !.response = [status |-> 200, success |-> FALSE,
                            services |-> reg.config,
                            activeConnections |-> connections]]

\* app.post('/api/services/change')
changeEndpoint(reg, service, provider, initOk) ==
  IF service = "" \/ provider = ""
  THEN [reg EXCEPT !.response = [NoResponse EXCEPT !.status = 400]]
  ELSE IF service \notin Capabilities
  THEN [reg EXCEPT !.response = [NoResponse EXCEPT !.status = 400]]
  ELSE LET r == callRegistry(reg, changeMethod(service), provider, initOk)
       IN  IF r.thrown
           THEN [r EXCEPT !.thrown = FALSE,
                          !.response = [NoResponse EXCEPT !.status = 500]]
           ELSE [r EXCEPT !.config[service] = provider,
                          !.response = [status |-> 200, success |-> TRUE,
                                        services |-> [r.config EXCEPT ![service] = provider],
                                        activeConnections |-> 0]]

\* ---------------------------------------------------------------- steps
Step(op, arg, w) ==
  /\ ws' = w.ws
  /\ gens' = w.gens
  /\ tts' = w.tts
  /\ hist' = w.hist
  /\ pushStream' = w.pushStream
  /\ recognizer' = w.recognizer
  /\ stops' = w.stops
  /\ activeConnections' = w.activeConnections
  /\ peer' = peer
  /\ registry' = registry
  /\ UNCHANGED <<client, player>>
  /\ ev' = [op |-> op, arg |-> arg, out |-> w.out, cancels |-> w.cancels,
            wrote |-> w.wrote, ret |-> w.ret]

Init ==
  /\ ws = [connectionActive |-> TRUE, isUserSpeaking |-> FALSE,
           llmStream |-> Null, currentSynthesizer |-> Null,
           ttsPendingSentences |-> <<>>, processingTTS |-> FALSE,
           conversationHistory |-> <<>>]
  /\ pushStream = TRUE
  /\ recognizer = "open"
  /\ setup = "starting"
  /\ readyState = "OPEN"
  /\ pingInterval = TRUE
  /\ gens = <<>>
  /\ tts = <<>>
  /\ stops = <<>>
  /\ hist = [interrupted |-> FALSE, synthLog |-> <<>>, enqLog |-> <<>>,
             appended |-> <<>>, unanswered |-> 0, cleanups |-> 0,
             closes |-> 0]
  /\ ev = [op |-> "handleConnection", arg |-> <<>>, out |-> <<>>,
           cancels |-> <<>>, wrote |-> <<>>, ret |-> "none"]
  /\ activeConnections = {1, 2}
  /\ registry = [active |-> [c \in Capabilities |-> NoProvider],
                 providers |-> [asr |-> {"azure"}, tts |-> {"azure"},
                                llm |-> {"openai"}],
                 config |-> [asr |-> "azure", tts |-> "azure", llm |-> "openai"],
                 made |-> 0, thrown |-> FALSE, state |-> "new",
                 response |-> NoResponse]
  /\ client = [websocket |-> Null, reconnectAttempts |-> 0,
               reconnectTimeout |-> Null, sockets |-> <<>>, timers |-> <<>>,
               started |-> FALSE, closeCalls |-> 0, socketsAtClose |-> 0,
               timersAtClose |-> 0]
  /\ player = [audioQueue |-> <<>>, isPlaying |-> FALSE,
               currentSource |-> Null, decodes |-> <<>>, sources |-> <<>>,
               received |-> 0, interruptions |-> 0, cleared |-> 0,
               started |-> <<>>]
  /\ peer = [ws |-> ws, pushStream |-> pushStream, recognizer |-> recognizer,
             setup |-> setup, readyState |-> readyState,
             pingInterval |-> pingInterval, gens |-> gens, tts |-> tts,
             stops |-> stops, hist |-> hist]

\* startContinuousRecognition succeeds: the ready status is sent
StartOk ==
  /\ setup = "starting"
  /\ setup' = "ready"
  /\ Step("startOk", <<>>, sendToClient(World, createMessage("status", <<"ready">>)))
  /\ UNCHANGED <<readyState, pingInterval>>

\* startContinuousRecognition fails or times out: setupRecognizer reports the
\* error and rethrows, the connection initializer tears down
StartFail ==
  /\ setup = "starting"
  /\ setup' = "failed"
  /\ pingInterval' = FALSE
  /\ Step("startFail", <<>>,
          cleanupResources(sendToClient(World,
            createMessage("error", <<"Failed to set up speech recognizer">>))))
  /\ UNCHANGED readyState

\* ws.on('message')
OnMessage(data) ==
  /\ readyState = "OPEN"
  /\ Step("processAudioData", data, processAudioData(World, data))
  /\ UNCHANGED <<setup, readyState, pingInterval>>

\* The recognizer's events fire while it runs.
RecognizerRuns == recognizer = "open" /\ setup = "ready"

Recognizing(text) ==
  /\ RecognizerRuns
  /\ Step("recognizing", text, recognizing(World, text))
  /\ UNCHANGED <<setup, readyState, pingInterval>>

Recognized(text, maxTurns) ==
  /\ RecognizerRuns
  /\ text # "" /\ ws.connectionActive => Len(gens) < maxTurns
  /\ Step("recognized", text, recognized(World, text))
  /\ UNCHANGED <<setup, readyState, pingInterval>>

\* recognizer.sessionStarted
SessionStarted ==
  /\ RecognizerRuns
  /\ Step("sessionStarted", <<>>, [World EXCEPT !.ws.isUserSpeaking = TRUE])
  /\ UNCHANGED <<setup, readyState, pingInterval>>

\* recognizer.sessionStopped
SessionStopped ==
  /\ RecognizerRuns
  /\ Step("sessionStopped", <<>>, [World EXCEPT !.ws.isUserSpeaking = FALSE])
  /\ UNCHANGED <<setup, readyState, pingInterval>>

\* The create call of callLLM resolves with a stream.
GenOpen(k) ==
  /\ gens[k].pc = "creating"
  /\ Step("streamOpen", k, streamOpen(World, k))
  /\ UNCHANGED <<setup, readyState, pingInterval>>

\* The create call of callLLM rejects.
GenCreateFail(k) ==
  /\ gens[k].pc = "creating"
  /\ Step("createThrow", k, createThrow(World, k))
  /\ UNCHANGED <<setup, readyState, pingInterval>>

\* The stream delivers a chunk; an aborted stream may still deliver what it
\* had buffered.
GenChunk(k, content) ==
  /\ gens[k].pc = "streaming"
  /\ gens[k].n < MaxChunks
  /\ LET w == streamChunk(World, k, content)
     IN  /\ Len(w.tts) <= MaxSynth
         /\ Step("streamChunk", k, w)
  /\ UNCHANGED <<setup, readyState, pingInterval>>

\* The stream ends; an aborted stream may end silently.
GenEnd(k) ==
  /\ gens[k].pc = "streaming"
  /\ LET w == streamEnd(World, k)
     IN  /\ Len(w.tts) <= MaxSynth
         /\ Step("streamEnd", k, w)
  /\ UNCHANGED <<setup, readyState, pingInterval>>

\* The iteration throws: an abort error only after an abort, any other error
\* at any time.  The step's result records the error's name.
GenThrow(k, name) ==
  /\ gens[k].pc = "streaming"
  /\ name = "AbortError" => gens[k].aborted
  /\ Step("streamThrow", k, [streamThrow(World, k, name) EXCEPT !.ret = name])
  /\ UNCHANGED <<setup, readyState, pingInterval>>

\* The request of textToSpeech call i completes; processNextTTS resumes.  The
\* step's result records how the request ended.
TtsDone(i, outcome) ==
  /\ LET w0 == [World EXCEPT !.tts = RemoveAt(@, i)]
         w  == processNextTTSResume(textToSpeechFinish(w0, tts[i].text, outcome))
     IN  /\ Len(w.tts) <= MaxSynth
         /\ Step("ttsDone", tts[i].text, [w EXCEPT !.ret = outcome])
  /\ UNCHANGED <<setup, readyState, pingInterval>>

\* stopContinuousRecognitionAsync calls back (success or error alike)
StopCallback(i) ==
  /\ LET w0 == closeRecognizer([World EXCEPT !.stops = RemoveAt(@, i)])
     IN  Step("stopCallback", i,
              IF stops[i] = "pending" THEN cleanupResourcesResume(w0) ELSE w0)
  /\ UNCHANGED <<setup, readyState, pingInterval>>

\* the 3 s timeout of stopRecognizer fires before the SDK called back
StopTimeout(i) ==
  /\ stops[i] = "pending"
  /\ Step("stopTimeout", i,
          cleanupResourcesResume(
            closeRecognizer([World EXCEPT !.stops[i] = "timedout"])))
  /\ UNCHANGED <<setup, readyState, pingInterval>>

\* ws.on('close')
WsClose ==
  /\ readyState # "CLOSED"
  /\ readyState' = "CLOSED"
  /\ pingInterval' = FALSE
  /\ Step("close", <<>>, cleanupResources(World))
  /\ UNCHANGED setup

\* ws.on('error'): the socket is closing when the event is emitted
WsError ==
  /\ readyState = "OPEN"
  /\ readyState' = "CLOSING"
  /\ pingInterval' = FALSE
  /\ Step("error", <<>>, cleanupResources(World))
  /\ UNCHANGED setup

\* ws.readyState leaves OPEN (the closing handshake has begun) before the
\* close event is emitted; setupHeartbeat reads it
WsClosing ==
  /\ readyState = "OPEN"
  /\ readyState' = "CLOSING"
  /\ Step("closing", <<>>, World)
  /\ UNCHANGED <<setup, pingInterval>>

\* The heartbeat interval fires and ws.ping() succeeds.  hist.unanswered
\* counts the probes sent since the last pong.
PingOk ==
  /\ pingInterval /\ readyState = "OPEN"
  /\ hist.unanswered < MaxUnanswered
  /\ Step("ping", <<>>, [World EXCEPT !.hist.unanswered = @ + 1])
  /\ UNCHANGED <<setup, readyState, pingInterval>>

\* The peer answers the probes with a pong.  No listener is registered for
\* it: the code neither records nor awaits the answer.
Pong ==
  /\ readyState = "OPEN"
  /\ hist.unanswered > 0
  /\ Step("pong", <<>>, [World EXCEPT !.hist.unanswered = 0])
  /\ UNCHANGED <<setup, readyState, pingInterval>>

\* The heartbeat interval fires and ws.ping() throws.
PingFail ==
  /\ pingInterval /\ readyState = "OPEN"
  /\ pingInterval' = FALSE
  /\ Step("pingFail", <<>>, cleanupResources(World))
  /\ UNCHANGED <<setup, readyState>>

\* The heartbeat interval fires on a socket that is not open.
PingStop ==
  /\ pingInterval /\ readyState # "OPEN"
  /\ pingInterval' = FALSE
  /\ Step("pingStop", <<>>, World)
  /\ UNCHANGED <<setup, readyState>>

\* The turn machinery on a connection that stays open: two overlapping turns.
Next ==
  \/ StartOk
  \/ \E data \in SpeechFrames : OnMessage(data)
  \/ \E text \in Texts : Recognizing(text)
  \/ \E text \in Texts : Recognized(text, MaxTurns)
  \/ SessionStarted
  \/ SessionStopped
  \/ \E k \in 1..Len(gens) : GenOpen(k)
  \/ \E k \in 1..Len(gens) : GenCreateFail(k)
  \/ \E k \in 1..Len(gens), content \in Chunks : GenChunk(k, content)
  \/ \E k \in 1..Len(gens) : GenEnd(k)
  \/ \E k \in 1..Len(gens), name \in {"AbortError", "Error"} : GenThrow(k, name)
  \/ \E i \in 1..Len(tts), outcome \in TtsOutcomes : TtsDone(i, outcome)

Spec == Init /\ [][Next]_vars

\* The connection's life: every frame, every teardown trigger, one turn.
NextLife ==
  \/ StartOk
  \/ StartFail
  \/ \E data \in Frames : OnMessage(data)
  \/ \E text \in Texts : Recognizing(text)
  \/ \E text \in Texts : Recognized(text, LifeTurns)
  \/ SessionStarted
  \/ SessionStopped
  \/ \E k \in 1..Len(gens) : GenOpen(k)
  \/ \E k \in 1..Len(gens) : GenCreateFail(k)
  \/ \E k \in 1..Len(gens), content \in Chunks : GenChunk(k, content)
  \/ \E k \in 1..Len(gens) : GenEnd(k)
  \/ \E k \in 1..Len(gens), name \in {"AbortError", "Error"} : GenThrow(k, name)
  \/ \E i \in 1..Len(tts), outcome \in TtsOutcomes : TtsDone(i, outcome)
  \/ \E i \in 1..Len(stops) : StopCallback(i)
  \/ \E i \in 1..Len(stops) : StopTimeout(i)
  \/ WsClose
  \/ WsError
  \/ WsClosing
  \/ PingOk
  \/ Pong
  \/ PingFail
  \/ PingStop

SpecLife == Init /\ [][NextLife]_vars

\* The conversation history on its own: any sequence of appended turns,
\* clears and reads.
HistAppend(role) ==
  /\ Len(hist.appended) < MaxAppends
  /\ LET entry == [role |-> role, turn |-> Len(hist.appended) + 1,
                   content |-> <<>>]
     IN  Step("addToConversationHistory", role,
              [World EXCEPT
                 !.ws.conversationHistory = addToConversationHistory(@, entry),
                 !.hist.appended = Append(@, entry)])
  /\ UNCHANGED <<setup, readyState, pingInterval>>

HistClear ==
  /\ Step("clearConversationHistory", <<>>,
          clearConversationHistory([World EXCEPT !.hist.appended = <<>>]))
  /\ UNCHANGED <<setup, readyState, pingInterval>>

HistGet ==
  /\ Step("getConversationHistory", <<>>, getConversationHistory(World))
  /\ UNCHANGED <<setup, readyState, pingInterval>>

NextHistory ==
  \/ \E role \in {"user", "assistant"} : HistAppend(role)
  \/ HistClear
  \/ HistGet

SpecHistory == Init /\ [][NextHistory]_vars

\* Two connections side by side.  handleConnection ran once per connection:
\* each has its own closure variables and its own fields on its own WebSocket
\* object, and both were added to activeConnections.  The second connection
\* runs the same handlers on its own world.
PeerWorld ==
  [ws |-> peer.ws, gens |-> peer.gens, tts |-> peer.tts, hist |-> peer.hist,
   pushStream |-> peer.pushStream, recognizer |-> peer.recognizer,
   stops |-> peer.stops, id |-> 2, activeConnections |-> activeConnections,
   fault |-> NoFault,
   out |-> <<>>, cancels |-> <<>>, wrote |-> <<>>, ret |-> "none"]

\* the variables of the first connection
session == <<ws, pushStream, recognizer, setup, readyState, pingInterval,
             gens, tts, stops, hist>>

\* A step of the second connection: p carries its socket and timer state
PeerStep(op, arg, w, p) ==
  /\ peer' = [p EXCEPT !.ws = w.ws, !.gens = w.gens, !.tts = w.tts,
                       !.hist = w.hist, !.pushStream = w.pushStream,
                       !.recognizer = w.recognizer, !.stops = w.stops]
  /\ activeConnections' = w.activeConnections
  /\ ev' = [op |-> op, arg |-> arg, out |-> w.out, cancels |-> w.cancels,
            wrote |-> w.wrote, ret |-> w.ret]
  /\ UNCHANGED <<session, registry, client, player>>

PeerStartOk ==
  /\ peer.setup = "starting"
  /\ PeerStep("startOk", <<>>,
              sendToClient(PeerWorld, createMessage("status", <<"ready">>)),
              [peer EXCEPT !.setup = "ready"])

PeerMessage(data) ==
  /\ peer.readyState = "OPEN"
  /\ PeerStep("processAudioData", data, processAudioData(PeerWorld, data), peer)

PeerRecognized(text) ==
  /\ peer.recognizer = "open" /\ peer.setup = "ready"
  /\ text # "" /\ peer.ws.connectionActive => Len(peer.gens) < PairTurns
  /\ PeerStep("recognized", text, recognized(PeerWorld, text), peer)

PeerGenOpen(k) ==
  /\ peer.gens[k].pc = "creating"
  /\ PeerStep("streamOpen", k, streamOpen(PeerWorld, k), peer)

PeerGenChunk(k, content) ==
  /\ peer.gens[k].pc = "streaming"
  /\ peer.gens[k].n < PairChunks
  /\ PeerStep("streamChunk", k, streamChunk(PeerWorld, k, content), peer)

PeerGenEnd(k) ==
  /\ peer.gens[k].pc = "streaming"
  /\ PeerStep("streamEnd", k, streamEnd(PeerWorld, k), peer)

PeerTtsDone(i, outcome) ==
  /\ LET w0 == [PeerWorld EXCEPT !.tts = RemoveAt(@, i)]
         w  == processNextTTSResume(
                 textToSpeechFinish(w0, peer.tts[i].text, outcome))
     IN  PeerStep("ttsDone", peer.tts[i].text, [w EXCEPT !.ret = outcome], peer)

PeerStopCallback(i) ==
  /\ LET w0 == closeRecognizer([PeerWorld EXCEPT !.stops = RemoveAt(@, i)])
     IN  PeerStep("stopCallback", i,
                  IF peer.stops[i] = "pending"
                  THEN cleanupResourcesResume(w0) ELSE w0,
                  peer)

PeerClose ==
  /\ peer.readyState # "CLOSED"
  /\ PeerStep("close", <<>>, cleanupResources(PeerWorld),
              [peer EXCEPT !.readyState = "CLOSED", !.pingInterval = FALSE])

\* one connection's chunks are bounded like the second's
PairChunk(k, content) == gens[k].n < PairChunks /\ GenChunk(k, content)

\* Two connections, one turn each, interleaved in every order.
NextPair ==
  \/ StartOk
  \/ \E data \in SpeechFrames : OnMessage(data)
  \/ Recognized("hi", PairTurns)
  \/ \E k \in 1..Len(gens) : GenOpen(k)
  \/ \E k \in 1..Len(gens), content \in {"a", "b."} : PairChunk(k, content)
  \/ \E k \in 1..Len(gens) : GenEnd(k)
  \/ \E i \in 1..Len(tts) : TtsDone(i, "audio")
  \/ \E i \in 1..Len(stops) : StopCallback(i)
  \/ WsClose
  \/ PeerStartOk
  \/ \E data \in SpeechFrames : PeerMessage(data)
  \/ PeerRecognized("hi")
  \/ \E k \in 1..Len(peer.gens) : PeerGenOpen(k)
  \/ \E k \in 1..Len(peer.gens), content \in {"a", "b."} : PeerGenChunk(k, content)
  \/ \E k \in 1..Len(peer.gens) : PeerGenEnd(k)
  \/ \E i \in 1..Len(peer.tts) : PeerTtsDone(i, "audio")
  \/ \E i \in 1..Len(peer.stops) : PeerStopCallback(i)
  \/ PeerClose

SpecPair == Init /\ [][NextPair]_vars

\* The registry and the two API endpoints on their own.
RegistryStep(op, arg, reg) ==
  /\ registry' = reg
  /\ ev' = [op |-> op, arg |-> arg, out |-> <<>>, cancels |-> <<>>,
            wrote |-> <<>>, ret |-> "none"]
  /\ UNCHANGED <<session, activeConnections, peer, client, player>>

\* main(): serviceRegistry.initialize(config); the server starts only when it
\* succeeded
RegistryInitialize(okAsr, okTts, okLlm) ==
  /\ registry.state = "new"
  /\ LET r == initializeProviders(registry, okAsr, okTts, okLlm)
     IN  RegistryStep("initialize", <<okAsr, okTts, okLlm>>,
                      [r EXCEPT !.thrown = FALSE,
                                !.state = IF r.thrown THEN "failed" ELSE "running"])

RegisterProvider(cap, type) ==
  /\ type \notin registry.providers[cap]
  /\ RegistryStep("registerProvider", <<cap, type>>,
                  registerProvider(registry, cap, type))

StatusRequest ==
  /\ registry.state = "running"
  /\ RegistryStep("status", <<>>,
                  statusEndpoint(registry, Cardinality(activeConnections)))

ChangeRequest(service, provider, initOk) ==
  /\ registry.state = "running"
  /\ RegistryStep("change", <<service, provider>>,
                  changeEndpoint(registry, service, provider, initOk))

NextRegistry ==
  \/ \E okAsr, okTts, okLlm \in BOOLEAN : RegistryInitialize(okAsr, okTts, okLlm)
  \/ \E cap \in Capabilities : RegisterProvider(cap, "example")
  \/ StatusRequest
  \/ \E service \in Capabilities \cup {"", "video"},
        provider \in {"azure", "openai", "example", ""},
        initOk \in BOOLEAN : ChangeRequest(service, provider, initOk)

SpecRegistry == Init /\ [][NextRegistry]_vars

\* The registry's setters called directly on a running registry, as
\* initializeProviders calls them: setASRProvider, setTTSProvider or
\* setLLMProvider with a provider name and the outcome of the new instance's
\* initialize; registry.thrown tells whether the call rejected.
SetProviderCall(cap, type, initOk) ==
  /\ registry.state = "running"
  /\ registry.made < MaxMade
  /\ RegistryStep("setProvider", <<cap, type, initOk>>,
                  setProvider([registry EXCEPT !.thrown = FALSE], cap, type, initOk))

NextProvider ==
  \/ \E okAsr, okTts, okLlm \in BOOLEAN : RegistryInitialize(okAsr, okTts, okLlm)
  \/ \E cap \in Capabilities : RegisterProvider(cap, "example")
  \/ \E cap \in Capabilities, type \in {"azure", "openai", "example"},
        initOk \in BOOLEAN : SetProviderCall(cap, type, initOk)

SpecProvider == Init /\ [][NextProvider]_vars

\* One connection whose abort() and close() calls may throw.  The fetch-based
\* textToSpeech of speechService.js never stores a synthesizer; a synthesis
\* path that keeps its SDK synthesizer on the connection while it runs, as
\* textToSpeech of src/server.js does, stores it in ws.currentSynthesizer.
SynthesizerAttached ==
  /\ tts # <<>> /\ ws.currentSynthesizer = Null
  /\ Step("synthesizerAttached", <<>>, [World EXCEPT !.ws.currentSynthesizer = 1])
  /\ UNCHANGED <<setup, readyState, pingInterval>>

FaultyMessage(data, f) ==
  /\ readyState = "OPEN"
  /\ Step("processAudioData", data,
          processAudioData([World EXCEPT !.fault = f], data))
  /\ UNCHANGED <<setup, readyState, pingInterval>>

FaultyRecognizing(text, f) ==
  /\ RecognizerRuns
  /\ Step("recognizing", text, recognizing([World EXCEPT !.fault = f], text))
  /\ UNCHANGED <<setup, readyState, pingInterval>>

FaultyRecognized(text, f) ==
  /\ RecognizerRuns
  /\ text # "" /\ ws.connectionActive => Len(gens) < FaultTurns
  /\ Step("recognized", text, recognized([World EXCEPT !.fault = f], text))
  /\ UNCHANGED <<setup, readyState, pingInterval>>

FaultyStopCallback(i, f) ==
  /\ LET w0 == closeRecognizer([World EXCEPT !.stops = RemoveAt(@, i),
                                             !.fault = f])
     IN  Step("stopCallback", i,
              IF stops[i] = "pending" THEN cleanupResourcesResume(w0) ELSE w0)
  /\ UNCHANGED <<setup, readyState, pingInterval>>

NextFault ==
  \/ StartOk
  \/ \E data \in SpeechFrames, f \in Faults : FaultyMessage(data, f)
  \/ \E f \in Faults : FaultyRecognizing("hi", f)
  \/ \E f \in Faults : FaultyRecognized("hi", f)
  \/ \E k \in 1..Len(gens) : GenOpen(k)
  \/ \E k \in 1..Len(gens), content \in {"a", "b."} : GenChunk(k, content)
  \/ \E k \in 1..Len(gens) : GenEnd(k)
  \/ \E k \in 1..Len(gens), name \in {"AbortError", "Error"} : GenThrow(k, name)
  \/ \E i \in 1..Len(tts) : TtsDone(i, "audio")
  \/ SynthesizerAttached
  \/ WsClose
  \/ \E i \in 1..Len(stops), f \in Faults : FaultyStopCallback(i, f)

SpecFault == Init /\ [][NextFault]_vars

\* The segmentation of a response whose chunks may be whitespace only.
SegChunk(k, content) ==
  /\ gens[k].pc = "streaming"
  /\ gens[k].n < SegChunks
  /\ LET w == streamChunk(World, k, content)
     IN  /\ Len(w.tts) <= MaxSynth
         /\ Step("streamChunk", k, w)
  /\ UNCHANGED <<setup, readyState, pingInterval>>

NextSegment ==
  \/ StartOk
  \/ \E data \in SpeechFrames : OnMessage(data)
  \/ Recognized("hi", SegTurns)
  \/ \E k \in 1..Len(gens) : GenOpen(k)
  \/ \E k \in 1..Len(gens), content \in {"a", "b.", " ", ""} : SegChunk(k, content)
  \/ \E k \in 1..Len(gens) : GenEnd(k)
  \/ \E i \in 1..Len(tts) : TtsDone(i, "audio")

SpecSegment == Init /\ [][NextSegment]_vars

\* ------------------------------------------------------------ properties

\* the `interrupt` notifications among the frames a step sent
NumInterrupts(out) ==
  Cardinality({i \in 1..Len(out) : out[i].kind = "text" /\ out[i].type = "interrupt"})

\* the streams that were opened, are still consumed and were not aborted
LiveStreams ==
  {k \in 1..Len(gens) : gens[k].pc = "streaming" /\ ~gens[k].aborted}

\* no callLLM invocation is running and no synthesis request is in flight
Quiescent ==
  /\ \A k \in 1..Len(gens) : gens[k].pc = "done"
  /\ tts = <<>>

IsPrefix(s, t) == Len(s) <= Len(t) /\ SubSeq(t, 1, Len(s)) = s

\* C1: barge-in invariant.  Every opened stream other than the session's
\* current handle has been cancelled or has completed, and at no point are
\* two generation streams open and still being consumed.
C1_OneLiveStream ==
  /\ Cardinality(LiveStreams) <= 1
  /\ \A k \in LiveStreams : ws.llmStream = k

\* C2: single-flight synthesis.  At most one textToSpeech call is in flight
\* at any time.
C2_SingleFlight == Len(tts) <= 1

\* C3: synthesis queue.  With no interruption (no cancel after the turn began,
\* no teardown, no failure) the sentences enqueued are synthesized one at a
\* time and in enqueue order, and once the turn is over each of them has been
\* synthesized exactly once, whether or not the stream ended first.
C3_AllSynthesized ==
  ~hist.interrupted =>
    /\ Len(tts) <= 1
    /\ IsPrefix(hist.synthLog, hist.enqLog)
    /\ Quiescent => hist.synthLog = hist.enqLog

\* C4: once connectionActive is false no step sends a text or binary frame,
\* the flag never becomes true again, and every teardown trigger leaves the
\* flag false at the end of its own step, having sent nothing after setting it.
C4_NoSendAfterInactive ==
  [][ /\ ~ws.connectionActive => (ev'.out = <<>> /\ ~ws'.connectionActive)
      /\ ev'.op \in {"close", "error", "pingFail", "startFail"}
           => ~ws'.connectionActive
      /\ ev'.op \in {"close", "error", "pingFail"} => ev'.out = <<>>
    ]_vars

\* a synthesis request that was in flight at teardown has completed afterwards
C4_Witness ==
  /\ ~ws.connectionActive
  /\ ev.op = "ttsDone"
  /\ Len(gens) = 1

\* what cancelOngoingActivities leaves behind
CancelPost(w) ==
  /\ w.ws.llmStream = Null
  /\ w.ws.currentSynthesizer = Null
  /\ w.ws.ttsPendingSentences = <<>>
  /\ ~w.ws.processingTTS

\* C5: after cancelOngoingActivities(ws, sendInterrupt) the session has no
\* generation handle, no synthesizer, an empty queue and a false processing
\* flag, and `interrupt` is sent iff sendInterrupt and the session is active:
\* for the calls the handlers make, and for a call with either flag from any
\* reachable state.
C5_CancelPostcondition ==
  /\ ev.cancels # <<>> =>
       /\ ws.llmStream = Null
       /\ ws.currentSynthesizer = Null
       /\ ws.ttsPendingSentences = <<>>
       /\ ~ws.processingTTS
       /\ NumInterrupts(ev.out) =
            Cardinality({i \in 1..Len(ev.cancels) :
                           ev.cancels[i].notify /\ ws.connectionActive})
  /\ \A sendInterrupt \in BOOLEAN :
       LET w == cancelOngoingActivities(World, sendInterrupt)
       IN  /\ CancelPost(w)
           /\ NumInterrupts(w.out) =
                (IF sendInterrupt /\ ws.connectionActive THEN 1 ELSE 0)

\* a partial result has cancelled a stream that was being consumed while a
\* sentence was queued, and the client was notified
C5_Witness ==
  /\ ev.op = "recognizing"
  /\ Len(ev.cancels) = 1 /\ ev.cancels[1].notify /\ ~ev.cancels[1].idle
  /\ \E k \in 1..Len(gens) : gens[k].aborted /\ gens[k].pc = "streaming"
  /\ hist.enqLog # <<>>
  /\ NumInterrupts(ev.out) = 1

\* a step all of whose calls of cancelOngoingActivities found the session idle
IdleCancel(e) ==
  /\ e.cancels # <<>>
  /\ \A i \in 1..Len(e.cancels) : e.cancels[i].idle

\* C6: idempotence of cancel.  When cancel is called on an idle session and
\* then called again, nothing in between, the session's fields are unchanged
\* and the client gets no duplicate `interrupt`: at most one for the two calls.
C6_IdleCancelTwice ==
  [][ (IdleCancel(ev) /\ IdleCancel(ev') /\ ev'.op = "recognizing") =>
        /\ ws' = ws
        /\ NumInterrupts(ev.out) + NumInterrupts(ev'.out) <= 1
    ]_vars

\* C7: cooperative cancellation by handle identity.  A chunk delivered to a
\* stream's loop while that stream is not the session's current handle, or
\* while the session is inactive, stops the loop, sends no llmResponse and
\* enqueues no sentence.
C7_StaleChunkIgnored ==
  [][ (ev'.op = "streamChunk" /\ (ws.llmStream # ev'.arg \/ ~ws.connectionActive)) =>
        /\ gens'[ev'.arg].pc = "done"
        /\ ev'.out = <<>>
        /\ ws'.ttsPendingSentences = ws.ttsPendingSentences
        /\ hist'.enqLog = hist.enqLog
    ]_vars

\* C8: conversation history bound.  Once created the history starts with the
\* system turn, holds at most MAX_CONVERSATION_HISTORY + 1 entries, and after
\* the system turn holds exactly the most recent MAX_CONVERSATION_HISTORY
\* entries appended since the last clear, in order (the oldest are evicted).
C8_HistoryBound ==
  LET h    == ws.conversationHistory
      a    == hist.appended
      keep == Min(Len(a), MAX_CONVERSATION_HISTORY)
  IN  IF h = <<>> THEN a = <<>>
      ELSE /\ Len(h) <= MAX_CONVERSATION_HISTORY + 1
           /\ h[1] = SystemTurn
           /\ Tail(h) = SubSeq(a, Len(a) - keep + 1, Len(a))

\* three entries have been evicted and the history is at its bound
C8_Witness ==
  /\ Len(hist.appended) = MAX_CONVERSATION_HISTORY + 3
  /\ Len(ws.conversationHistory) = MAX_CONVERSATION_HISTORY + 1
  /\ ev.op = "addToConversationHistory"

\* C9 as stated: every frame of even positive length is accepted and written,
\* every empty or odd-length frame is rejected and nothing is written.
C9_AcceptReject ==
  ev.op = "processAudioData" =>
    IF Len(ev.arg) > 0 /\ Len(ev.arg) % 2 = 0
    THEN ev.ret = "true" /\ ev.wrote = <<ev.arg>>
    ELSE ev.ret = "false" /\ ev.wrote = <<>>

\* C9 amended: on an active session every frame of even positive length is
\* accepted and written to the push stream; every empty or odd-length frame,
\* and every frame on an inactive session, is rejected and nothing is written.
C9_AcceptRejectActive ==
  ev.op = "processAudioData" =>
    IF ws.connectionActive /\ Len(ev.arg) > 0 /\ Len(ev.arg) % 2 = 0
    THEN ev.ret = "true" /\ ev.wrote = <<ev.arg>>
    ELSE ev.ret = "false" /\ ev.wrote = <<>>

\* a four-byte frame has been accepted and written
C9_Witness ==
  /\ ev.op = "processAudioData"
  /\ Len(ev.arg) = 4
  /\ ev.ret = "true"
  /\ ev.wrote = <<ev.arg>>

\* C10: barge-in triggers cancellation.  Whenever a valid frame above the
\* threshold is ingested while a stream is being consumed or a sentence is
\* queued or being synthesized, that step clears the generation handle and
\* empties the queue.
C10_BargeInCancels ==
  [][ ( /\ ev'.op = "processAudioData"
        /\ ev'.ret = "true"
        /\ detectVoiceActivity(ev'.arg)
        /\ (ws.llmStream # Null \/ ws.ttsPendingSentences # <<>> \/ tts # <<>>) ) =>
        /\ ws'.llmStream = Null
        /\ ws'.ttsPendingSentences = <<>>
    ]_vars

\* a step that ingested a valid frame above the threshold on an active session
LoudFrameStep(e) ==
  /\ e.op = "processAudioData"
  /\ e.ret = "true"
  /\ detectVoiceActivity(e.arg)

\* C11: a burst of consecutive valid above-threshold frames on an active
\* connection emits exactly one `interrupt`: the frame that begins the burst
\* (the step before it was not such a frame) emits one, and every further
\* frame of the burst emits none.
C11_OneInterruptPerBurst ==
  [][ LoudFrameStep(ev') =>
        NumInterrupts(ev'.out) = (IF LoudFrameStep(ev) THEN 0 ELSE 1)
    ]_vars

\* C12: for a non-empty final result on an active session the step cancels
\* first (the current stream is aborted, `interrupt` is the first frame sent),
\* relays `transcription` with the text second, and starts generation with
\* that text last (a new callLLM invocation whose user turn is the text); a
\* chunk is only ever delivered for an invocation started by an earlier step,
\* so no llmResponse of a turn precedes its transcription.
C12_FinalRoutingOrder ==
  [][ /\ (ev'.op = "recognized" /\ ev'.arg # "" /\ ws.connectionActive) =>
           /\ ev'.out = <<createMessage("interrupt", <<>>),
                          createMessage("transcription", <<ev'.arg>>)>>
           /\ Len(ev'.cancels) = 2 /\ ev'.cancels[1].notify
           /\ ws.llmStream # Null => gens'[ws.llmStream].aborted
           /\ Len(gens') = Len(gens) + 1
           /\ gens'[Len(gens')].pc = "creating"
           /\ LET h == ws'.conversationHistory
              IN  h[Len(h)] = [role |-> "user", turn |-> Len(gens'),
                               content |-> <<ev'.arg>>]
      /\ ev'.op = "streamChunk" =>
           /\ ev'.arg \in 1..Len(gens)
           /\ gens[ev'.arg].pc = "streaming"
    ]_vars

\* a second final result arrived while the first turn's stream was consumed
C12_Witness ==
  /\ ev.op = "recognized"
  /\ ev.arg = "hi"
  /\ Len(gens) = 2
  /\ gens[1].pc = "streaming" /\ gens[1].aborted
  /\ gens[2].pc = "creating"
  /\ Len(ev.out) = 2

\* C13: an empty final recognition result is dropped: the step starts no
\* generation, leaves every session field and every suspended task as it was,
\* calls no cancel and sends nothing.
C13_EmptyFinalDropped ==
  [][ (ev'.op = "recognized" /\ ev'.arg = "") =>
        /\ ws' = ws
        /\ gens' = gens
        /\ tts' = tts
        /\ ev'.cancels = <<>>
        /\ ev'.out = <<>>
    ]_vars

\* an empty final result arrived while a stream was consumed, a sentence was
\* being synthesized and another was queued
C13_Witness ==
  /\ ev.op = "recognized"
  /\ ev.arg = ""
  /\ ws.llmStream # Null
  /\ tts # <<>>
  /\ Len(ws.ttsPendingSentences) = 2

\* C14: a non-empty partial result on an active session cancels first (the
\* current stream is aborted, the handle cleared, the queue emptied,
\* `interrupt` sent) and then relays `partialTranscription` with the text; an
\* empty partial, or a partial on an inactive session, calls no cancel, sends
\* nothing and changes nothing.
C14_PartialRouting ==
  [][ ev'.op = "recognizing" =>
        IF ev'.arg # "" /\ ws.connectionActive
        THEN /\ ev'.out = <<createMessage("interrupt", <<>>),
                            createMessage("partialTranscription", <<ev'.arg>>)>>
             /\ Len(ev'.cancels) = 1 /\ ev'.cancels[1].notify
             /\ ws.llmStream # Null => gens'[ws.llmStream].aborted
             /\ ws'.llmStream = Null
             /\ ws'.ttsPendingSentences = <<>>
        ELSE /\ ev'.out = <<>>
             /\ ev'.cancels = <<>>
             /\ ws' = ws
             /\ gens' = gens
    ]_vars

\* a partial result interrupted a stream with a sentence in synthesis
C14_Witness ==
  /\ ev.op = "recognizing"
  /\ ev.arg = "hi"
  /\ ws.connectionActive
  /\ Len(gens) = 1 /\ gens[1].pc = "streaming" /\ gens[1].aborted
  /\ tts # <<>>
  /\ Len(ev.out) = 2

\* the step was the completion of a textToSpeech request that failed: request
\* error, non-OK status or empty audio
SynthesisFailed(e) ==
  e.op = "ttsDone" /\ e.ret \in TtsOutcomes \ {"audio"}

\* the frames of `out` that are typed `error` messages
TypedErrors(out) ==
  {i \in 1..Len(out) : out[i].kind = "text" /\ out[i].type = "error"}

\* C15: when synthesis of the head sentence fails on an active session, the
\* whole queue is cleared, no further synthesis is started, the processing
\* flag is cleared and the client gets a typed `error` message.
C15_SynthesisFailureClearsQueue ==
  [][ (SynthesisFailed(ev') /\ ws.connectionActive) =>
        /\ ws'.ttsPendingSentences = <<>>
        /\ ~ws'.processingTTS
        /\ Len(tts') < Len(tts)
        /\ TypedErrors(ev'.out) # {}
    ]_vars

\* the step was a generation failure that is not a cancellation: the create
\* call rejected, or the iteration threw an error other than an abort
GenerationFailed(e) ==
  \/ e.op = "createThrow"
  \/ e.op = "streamThrow" /\ e.ret # "AbortError"

\* C16: when the create call or the stream fails with a non-cancellation
\* error on an active session, the step sends one typed `error` message,
\* appends nothing to the history (the partial response is dropped and the
\* invocation is over, so nothing is appended later either), and leaves the
\* failed stream not the session's handle: a failed stream leaves no handle
\* at all.
C16_GenerationFailure ==
  [][ (GenerationFailed(ev') /\ ws.connectionActive) =>
        /\ ev'.out = <<createMessage("error", <<"Error calling language model">>)>>
        /\ ws'.conversationHistory = ws.conversationHistory
        /\ gens'[ev'.arg].pc = "done"
        /\ gens'[ev'.arg].full = <<>>
        /\ ws'.llmStream # ev'.arg
        /\ ev'.op = "streamThrow" => ws'.llmStream = Null
    ]_vars

\* a stream failed after a sentence of its response had been enqueued
C16_Witness ==
  /\ ev.op = "streamThrow"
  /\ ev.ret = "Error"
  /\ \E i \in 1..Len(hist.enqLog) : hist.enqLog[i].turn = ev.arg
  /\ LET h == ws.conversationHistory
     IN  h[Len(h)].role = "user"

\* C17: after a per-turn failure on an active session (the generation call or
\* its stream failed with a non-cancellation error, or a synthesis request
\* failed) the client has received exactly one typed `error` message for it
\* and the session is listening-ready: queue empty, processing flag false, no
\* generation handle.
C17_RecoveryAfterFailure ==
  [][ ((GenerationFailed(ev') \/ SynthesisFailed(ev')) /\ ws.connectionActive) =>
        /\ Cardinality(TypedErrors(ev'.out)) = 1
        /\ ws'.ttsPendingSentences = <<>>
        /\ ~ws'.processingTTS
        /\ ws'.llmStream = Null
    ]_vars

C19_HeartbeatTearsDown ==
  /\ ev.op = "pingFail" => (~ws.connectionActive /\ readyState # "OPEN")
  /\ hist.unanswered > 1 => (~ws.connectionActive /\ readyState # "OPEN")

\* C20: cleanupResources is invoked at most once for a connection, whatever
\* teardown triggers fire (failed probe, close event, error event, recognizer
\* setup failure).
C20_CleanupOnce == hist.cleanups <= 1

\* a stopRecognizer promise has not resolved yet
StopPending == \E i \in 1..Len(stops) : stops[i] = "pending"

\* the timer of a stopRecognizer call fires
TimeoutFires ==
  \E i \in 1..Len(stops) :
    stops[i] = "pending" /\ stops' = [stops EXCEPT ![i] = "timedout"]

\* The timer of stopRecognizer fires unless the SDK calls back first.
SpecRelease ==
  SpecLife /\ WF_stops(TimeoutFires)

\* C21: whatever callbacks and timeouts fire and however often
\* cleanupResources is invoked, recognizer.close() is called at most once, the
\* recognizer variable is null only after that one call (so the reference is
\* never dropped unclosed), and every stopRecognizer promise resolves.
C21_RecognizerReleasedOnce ==
  /\ [](/\ hist.closes <= 1
        /\ recognizer = "null" <=> hist.closes = 1)
  /\ StopPending ~> ~StopPending

\* two cleanups waited for the recognizer; one was resolved by its timeout,
\* and the SDK's callbacks arrived afterwards
C21_Witness ==
  /\ ev.op = "stopCallback"
  /\ hist.cleanups >= 2
  /\ \E i \in 1..Len(stops) : stops[i] = "timedout"
  /\ recognizer = "null"
  /\ hist.closes = 1

\* the step consumed a chunk with content for stream k: the loop did not stop
\* and the full response grew by the chunk
ChunkConsumed(k) ==
  /\ ev'.op = "streamChunk"
  /\ gens'[k].pc = "streaming"
  /\ Len(gens'[k].full) = Len(gens[k].full) + 1

\* the step enqueued exactly the sentence `text` of stream k and reset the
\* sentence buffer
EnqueuedOne(k, text) ==
  /\ hist'.enqLog = Append(hist.enqLog,
                           [turn |-> k, n |-> gens[k].sn + 1, text |-> text])
  /\ (gens'[k].pc = "streaming" => gens'[k].cur = <<>>)

\* C22 as stated: a sentence is enqueued exactly when a chunk with a
\* terminator is consumed, and it carries the text accumulated since the
\* previous cut; no other step enqueues a sentence.
C22_EnqueueOnTerminatorOnly ==
  [][ IF ev'.op = "streamChunk" /\ ChunkConsumed(ev'.arg)
      THEN LET k == ev'.arg
               c == gens'[k].full[Len(gens'[k].full)]
           IN  IF sentenceEndTest(c)
               THEN EnqueuedOne(k, Append(gens[k].cur, c))
               ELSE hist'.enqLog = hist.enqLog
      ELSE hist'.enqLog = hist.enqLog
    ]_vars

\* C22 amended: while a stream is consumed, a chunk with a terminator
\* enqueues exactly one sentence, the text accumulated since the previous cut
\* including that chunk, and resets the buffer; a chunk without a terminator
\* enqueues nothing; at the end of the stream the remaining text, if not
\* blank, is enqueued as one more sentence; a chunk that finds the stream
\* cancelled enqueues nothing, and no other step enqueues.
C22_Segmentation ==
  [][ IF ev'.op = "streamChunk" /\ ChunkConsumed(ev'.arg)
      THEN LET k == ev'.arg
               c == gens'[k].full[Len(gens'[k].full)]
           IN  IF sentenceEndTest(c)
               THEN EnqueuedOne(k, Append(gens[k].cur, c))
               ELSE /\ hist'.enqLog = hist.enqLog
                    /\ gens'[k].cur = Append(gens[k].cur, c)
      ELSE IF ev'.op = "streamEnd" /\ ~TrimIsEmpty(gens[ev'.arg].cur)
      THEN EnqueuedOne(ev'.arg, gens[ev'.arg].cur)
      ELSE hist'.enqLog = hist.enqLog
    ]_vars

\* Scenario B: a chunk without and then a chunk with a terminator gave exactly
\* one sentence, the text of both
C22_Witness ==
  /\ ev.op = "streamChunk"
  /\ hist.enqLog = <<[turn |-> 1, n |-> 1, text |-> <<"a", "b.">>]>>
  /\ gens[1].pc = "streaming" /\ gens[1].n = 2 /\ gens[1].cur = <<>>

\* the step started a turn: a non-empty final result on an active session
TurnStarted ==
  ev'.op = "recognized" /\ ev'.arg # "" /\ ws.connectionActive

\* the user entry and the assistant entry of a turn
UserTurn(k, text) == [role |-> "user", turn |-> k, content |-> <<text>>]

AssistantTurn(k, full) == [role |-> "assistant", turn |-> k, content |-> full]

ValidFrame(data) == Len(data) >= 2 /\ Len(data) % 2 = 0

C25_Isolation ==
  /\ [][ /\ (peer' = peer \/ UNCHANGED session)
         /\ UNCHANGED session => activeConnections \ {2} \subseteq activeConnections'
         /\ peer' = peer => activeConnections \ {1} \subseteq activeConnections'
         /\ activeConnections' \subseteq activeConnections
       ]_vars
  /\ [](/\ 1 \in activeConnections <=> ws.connectionActive
        /\ 2 \in activeConnections <=> peer.ws.connectionActive)

\* the second connection was torn down in the middle of its turn while the
\* first is in the middle of its own: stream open, a sentence in synthesis
C25_Witness ==
  /\ ev.op = "close"
  /\ ~peer.ws.connectionActive /\ peer.gens # <<>> /\ peer.stops # <<>>
  /\ activeConnections = {1}
  /\ ws.connectionActive /\ ws.llmStream # Null /\ ws.processingTTS
  /\ tts # <<>>

\* C26: provider hot-swap.  A change request naming a valid capability and a
\* provider registered for it replaces the registry's active instance by a
\* newly initialized one of that provider and reports success; get(capability)
\* then returns the new instance and the status endpoint reports the new name.
C26_HotSwap ==
  [][ IF ev'.op = "change"
      THEN LET service == ev'.arg[1]
               provider == ev'.arg[2]
           IN  service \in Capabilities /\ provider \in registry.providers[service]
               => /\ registry'.response.status = 200
                  /\ registry'.response.success
                  /\ getProvider(registry', service).name = provider
                  /\ getProvider(registry', service).serial > registry.made
                  /\ statusEndpoint(registry', 0).response.services[service] = provider
      ELSE TRUE
    ]_vars

\* C27: wire envelope.  Every text frame a step sends to the client is a JSON
\* object with a string `type` field, the error notifications of the
\* synthesis path included.
C27_Envelope ==
  \A i \in 1..Len(ev.out) : ev.out[i].kind = "text" => ev.out[i].type # ""

\* C28: voice-activity detection never filters.  A valid frame on an active
\* session is written to the push stream whether or not activity is detected
\* in it; when the frame triggers a barge-in (activity, speaking flag clear)
\* the speaking flag is set and cancel runs once, with the flag already set
\* and before the frame is written; otherwise the step does not cancel.
C28_DetectThenForward ==
  [][ ev'.op = "processAudioData" /\ ValidFrame(ev'.arg) /\ ws.connectionActive
      => /\ ev'.wrote = <<ev'.arg>>
         /\ IF detectVoiceActivity(ev'.arg) /\ ~ws.isUserSpeaking
            THEN /\ ws'.isUserSpeaking
                 /\ Len(ev'.cancels) = 1
                 /\ ev'.cancels[1].speaking
                 /\ ev'.cancels[1].wrote = 0
            ELSE /\ ev'.cancels = <<>>
                 /\ ws'.isUserSpeaking = ws.isUserSpeaking
    ]_vars

\* a silent frame was forwarded while a response was being generated
C28_SilentForwarded ==
  /\ ev.op = "processAudioData"
  /\ ~detectVoiceActivity(ev.arg)
  /\ ev.wrote = <<ev.arg>>
  /\ ev.cancels = <<>>
  /\ ws.llmStream # Null

\* a loud frame interrupted a response: cancelled, then written
C28_Witness ==
  /\ ev.op = "processAudioData"
  /\ detectVoiceActivity(ev.arg)
  /\ Len(ev.cancels) = 1 /\ ~ev.cancels[1].idle /\ ev.cancels[1].wrote = 0
  /\ ev.wrote = <<ev.arg>>

\* a step in which a catch block of cancelOngoingActivities absorbed an error
AbsorbedIn(e) == \E i \in 1..Len(e.cancels) : e.cancels[i].caught > 0

\* C29: cancel absorbs the errors of abort() and close().  When either throws
\* inside cancelOngoingActivities, no error escapes cancel, the generation
\* handle and the synthesizer reference are cleared, the queue is empty, the
\* processing flag is false, and `interrupt` is sent once per call that asked
\* for it on an active session.
C29_CancelAbsorbs ==
  AbsorbedIn(ev) =>
    /\ \A i \in 1..Len(ev.cancels) : ~ev.cancels[i].threw
    /\ CancelPost([ws |-> ws])
    /\ NumInterrupts(ev.out) =
         Cardinality({i \in 1..Len(ev.cancels) :
                        ev.cancels[i].notify /\ ws.connectionActive})

\* abort() and close() both threw in a barge-in that interrupted a stream with
\* a synthesizer attached and a sentence queued behind; the client was notified
C29_Witness ==
  /\ ev.op = "processAudioData"
  /\ Len(ev.cancels) = 1 /\ ev.cancels[1].caught = 2
  /\ NumInterrupts(ev.out) = 1
  /\ ws.llmStream = Null /\ ws.currentSynthesizer = Null
  /\ \E k \in 1..Len(gens) : gens[k].pc = "streaming" /\ ~gens[k].aborted
  /\ Len(hist.enqLog) >= 2

\* C30: a superseded generation cannot disturb the current one.  When the
\* consuming loop of a stream takes a chunk, finishes or throws while another,
\* newer stream is stored as the session's handle, the step leaves that
\* handle in place.
C30_SupersededKeepsHandle ==
  [][ IF ev'.op \in {"streamChunk", "streamEnd", "streamThrow"}
      THEN (ws.llmStream # Null /\ ws.llmStream # ev'.arg)
             => ws'.llmStream = ws.llmStream
      ELSE TRUE
    ]_vars

\* the binary audio frames among the frames a step sent
NumAudio(out) ==
  Cardinality({i \in 1..Len(out) : out[i].kind = "binary"})

\* C31: no stale audio after barge-in.  When a step has run
\* cancelOngoingActivities on an active session, every synthesis request still
\* in flight was started before that cancel; when such a request completes in
\* the next step, no audio frame is sent to the client.
C31_NoStaleAudio ==
  [][ (ev.cancels # <<>> /\ ws.connectionActive /\ ev'.op = "ttsDone")
        => NumAudio(ev'.out) = 0
    ]_vars

\* C32: head removal matches synthesis.  The sentence a completing synthesis
\* call removes from the head of the queue is the sentence that call
\* synthesized.
C32_HeadIsSynthesized ==
  [][ IF ev'.op = "ttsDone" /\ ws.ttsPendingSentences # <<>>
      THEN Head(ws.ttsPendingSentences) = ev'.arg
      ELSE TRUE
    ]_vars

\* the sentences of turn k among those enqueued, in enqueue order
SentencesOf(log, k) == SelectSeq(log, LAMBDA s : s.turn = k)

\* the concatenation of the texts of a sequence of sentences
RECURSIVE ConcatText(_)
ConcatText(sentences) ==
  IF sentences = <<>> THEN <<>>
  ELSE Head(sentences).text \o ConcatText(Tail(sentences))

\* C33: segmentation conserves text.  When the loop of a stream that was not
\* cancelled reaches the end of the stream, the sentences enqueued for it, in
\* order, concatenate to the full response, less a trailing remainder that is
\* whitespace only; none of them is empty or whitespace only.
C33_SegmentationConserves ==
  [][ IF ev'.op = "streamEnd"
      THEN LET k == ev'.arg
               g == gens[k]
               enq == SentencesOf(hist'.enqLog, k)
           IN  ~g.aborted /\ ws.llmStream = k
               => /\ ConcatText(enq) =
                       (IF TrimIsEmpty(g.cur)
                        THEN SubSeq(g.full, 1, Len(g.full) - Len(g.cur))
                        ELSE g.full)
                  /\ \A i \in 1..Len(enq) : ~TrimIsEmpty(enq[i].text)
      ELSE TRUE
    ]_vars

\* a stream ended after the chunks "b." and " ": one sentence was enqueued,
\* the whitespace remainder was dropped, the full response went to the history
C33_Witness ==
  /\ ev.op = "streamEnd"
  /\ Len(hist.enqLog) = 1 /\ hist.enqLog[1].text = <<"b.">>
  /\ ws.conversationHistory # <<>>
  /\ ws.conversationHistory[Len(ws.conversationHistory)].content = <<"b.", " ">>

\* C34: history ordering under supersession.  Every assistant entry directly
\* follows the user entry of its own turn, so no assistant entry of an older
\* turn stands after the user entry of a later turn.
C34_AssistantFollowsItsUser ==
  LET h == ws.conversationHistory
  IN  \A j \in 1..Len(h) :
        h[j].role = "assistant" =>
          /\ j > 1
          /\ h[j - 1].role = "user"
          /\ h[j - 1].turn = h[j].turn


\* ------------------------------------------- voice-activity decision
\* bytes of the enumerated frames: the samples 0, 300 (<<44, 1>>),
\* 301 (<<45, 1>>), -301 (<<211, 254>>), -32768 (<<0, 128>>), -1 (<<255, 255>>)
VadBytes == {0, 1, 44, 45, 128, 211, 254, 255}

VadSamples == { <<0, 0>>, <<44, 1>>, <<45, 1>>, <<211, 254>>, <<0, 128>> }

RECURSIVE Fill(_, _)
Fill(sample, k) == IF k = 0 THEN <<>> ELSE sample \o Fill(sample, k - 1)

\* every frame of at most VadShortLen bytes, and frames of 198, 199, 200, 202
\* and 204 bytes: VadFill equal samples followed by one to four further samples
\* (or a sample and an odd byte), the last ones lying beyond the window
VadFrames ==
  UNION { [1..n -> VadBytes] : n \in 0..VadShortLen }
  \cup { Fill(a, VadFill) \o b : a, b \in VadSamples }
  \cup { Fill(a, VadFill) \o b \o <<7>> : a, b \in VadSamples }
  \cup { Fill(a, VadFill) \o b \o c : a, b, c \in VadSamples }
  \cup { Fill(a, VadFill) \o b \o b \o c : a, b, c \in VadSamples }
  \cup { Fill(a, VadFill) \o b \o b \o c \o c : a, b, c \in VadSamples }

\* one call of detectVoiceActivity on a frame; the function keeps no state, so
\* each behaviour applies it once
DetectCall(buffer) ==
  /\ ev.op = "handleConnection"
  /\ ev' = [op |-> "detectVoiceActivity", arg |-> buffer, out |-> <<>>,
            cancels |-> <<>>, wrote |-> <<>>,
            ret |-> detectVoiceActivity(buffer)]
  /\ UNCHANGED <<ws, pushStream, recognizer, setup, readyState, pingInterval,
                 gens, tts, stops, hist, activeConnections, peer, registry,
                 client, player>>

NextVad == \E buffer \in VadFrames : DetectCall(buffer)

SpecVad == Init /\ [][NextVad]_vars

\* the signed value of the j-th 16-bit little-endian sample of a frame
SampleValue(f, j) ==
  LET lo == f[2 * j - 1]
      hi == f[2 * j]
  IN  lo + 256 * (hi % 128) - 32768 * (hi \div 128)

\* the sum of the absolute values of the samples lo..hi of a frame
RECURSIVE SumMagnitude(_, _, _)
SumMagnitude(f, lo, hi) ==
  IF lo > hi THEN 0
  ELSE IF lo = hi
       THEN LET v == SampleValue(f, lo) IN IF v < 0 THEN 0 - v ELSE v
       ELSE LET mid == (lo + hi) \div 2
            IN  SumMagnitude(f, lo, mid) + SumMagnitude(f, mid + 1, hi)

\* the mean absolute value of the first cnt samples exceeds the threshold
MeanAbove(f, cnt) == SumMagnitude(f, 1, cnt) > voiceDetectionThreshold * cnt

\* C35: for a frame of even length n >= 2 detectVoiceActivity returns true
\* exactly when the mean absolute value of the samples in the first
\* min(n, 200) bytes is strictly above the threshold; it returns false for a
\* frame shorter than 2 bytes and when a read runs past the end of the frame
\* (odd length below the window).
C35_VoiceActivityDecision ==
  IF ev.op # "detectVoiceActivity" THEN TRUE
  ELSE LET f == ev.arg
           n == Len(f)
           windowBytes == IF n < 200 THEN n ELSE 200
       IN  /\ (n >= 2 /\ n % 2 = 0) => (ev.ret <=> MeanAbove(f, windowBytes \div 2))
           /\ n < 2 => ev.ret = FALSE
           /\ (n < 200 /\ n % 2 = 1) => ev.ret = FALSE

\* a frame longer than the window whose window is silent and whose samples
\* beyond the window are loud was judged
C35_Witness ==
  IF ev.op # "detectVoiceActivity" THEN FALSE
  ELSE /\ Len(ev.arg) = 204
       /\ ~MeanAbove(ev.arg, 100)
       /\ MeanAbove(ev.arg, 102)
       /\ ev.ret = FALSE


\* C36: failed provider selection is atomic.  A set*Provider call with a name
\* that is not registered for the capability, or whose new instance's
\* initialize throws, rejects and leaves the active instances of all three
\* capabilities as they were.
C36_FailedSelectionAtomic ==
  [][ IF ev'.op = "setProvider"
      THEN LET cap == ev'.arg[1]
               type == ev'.arg[2]
               initOk == ev'.arg[3]
           IN  (type \notin registry.providers[cap] \/ ~initOk)
               => /\ registry'.thrown
                  /\ registry'.active = registry.active
                  /\ registry'.providers = registry.providers
      ELSE TRUE
    ]_vars

\* a registered provider whose initialize threw was selected for a capability
\* that had been switched to another provider before, and that one is still
\* the active instance
C36_Witness ==
  /\ ev.op = "setProvider"
  /\ registry.thrown
  /\ ev.arg[2] \in registry.providers[ev.arg[1]]
  /\ registry.active[ev.arg[1]].name = "example"
  /\ ev.arg[2] # "example"


\* ------------------------------------------- public/websocket-client.js
\* A socket is [readyState, timeout, by, opened]: the browser's readyState,
\* the connectionTimeout of the connect() call that made it ("armed",
\* "cleared", "fired"), who called that connect() ("app", "reconnect") and
\* whether it ever opened.  A timer is [delay, attempts, state]: a timeout set
\* by _scheduleReconnect, the counter when it was set, "armed" / "cleared" /
\* "fired".

\* WebSocket.close() of the browser: a connecting or open socket starts
\* closing and delivers its close event later; otherwise nothing happens
socketClose(c, s) ==
  IF c.sockets[s].readyState \in {"CONNECTING", "OPEN"}
  THEN [c EXCEPT !.sockets[s].readyState = "CLOSING"]
  ELSE c

\* clearTimeout(connectionTimeout) in the handlers of socket s
clearConnectionTimeout(c, s) ==
  IF c.sockets[s].timeout = "armed"
  THEN [c EXCEPT !.sockets[s].timeout = "cleared"]
  ELSE c

\* connect(): closes the current socket if there is one, creates a new one
\* and arms its connection timeout
connect(c, by) ==
  LET c1 == IF c.websocket # Null THEN socketClose(c, c.websocket) ELSE c
  IN  [c1 EXCEPT !.sockets = Append(@, [readyState |-> "CONNECTING",
                                        timeout |-> "armed", by |-> by,
                                        opened |-> FALSE]),
                 !.websocket = Len(c1.sockets) + 1]

\* _scheduleReconnect() without the test of the attempt counter
scheduleReconnect_NoLimit(c) ==
  LET delay == Min(ReconnectBaseMs * 2 ^ c.reconnectAttempts, ReconnectCapMs)
  IN  [c EXCEPT !.timers = Append(@, [delay |-> delay,
                                      attempts |-> c.reconnectAttempts,
                                      state |-> "armed"]),
                !.reconnectTimeout = Len(c.timers) + 1]

\* _scheduleReconnect()
scheduleReconnect(c) ==
  IF c.reconnectAttempts >= maxReconnectAttempts THEN c
  ELSE LET delay == Min(ReconnectBaseMs * 2 ^ c.reconnectAttempts, ReconnectCapMs)
       IN  [c EXCEPT !.timers = Append(@, [delay |-> delay,
                                           attempts |-> c.reconnectAttempts,
                                           state |-> "armed"]),
                     !.reconnectTimeout = Len(c.timers) + 1]

\* websocket.onopen of socket s
onopen(c, s) ==
  [clearConnectionTimeout(c, s) EXCEPT !.reconnectAttempts = 0]

\* websocket.onerror of socket s
onerror(c, s) == clearConnectionTimeout(c, s)

\* websocket.onclose of socket s
onclose(c, s) == scheduleReconnect(clearConnectionTimeout(c, s))

\* the callback of the connection timeout: it reads this.websocket, the
\* client's current socket; with none it throws a TypeError
connectionTimeout(c) ==
  IF c.websocket = Null THEN c
  ELSE IF c.sockets[c.websocket].readyState # "OPEN"
       THEN socketClose(c, c.websocket)
       ELSE c

\* the callback _scheduleReconnect hands to setTimeout
reconnectCallback(c) ==
  connect([c EXCEPT !.reconnectAttempts = @ + 1], "reconnect")

\* close()
close(c) ==
  LET c1 == IF c.reconnectTimeout # Null
            THEN [c EXCEPT !.timers[c.reconnectTimeout].state =
                             IF @ = "armed" THEN "cleared" ELSE @,
                           !.reconnectTimeout = Null]
            ELSE c
  IN  IF c1.websocket # Null
      THEN [socketClose(c1, c1.websocket) EXCEPT !.websocket = Null]
      ELSE c1

ClientStep(op, arg, c) ==
  /\ client' = c
  /\ ev' = [op |-> op, arg |-> arg, out |-> <<>>, cancels |-> <<>>,
            wrote |-> <<>>, ret |-> "none"]
  /\ UNCHANGED <<session, activeConnections, peer, registry, player>>

\* the page calls webSocketClient.connect() once, when it initializes
AppConnect ==
  /\ ~client.started
  /\ ClientStep("connect", 0, [connect(client, "app") EXCEPT !.started = TRUE])

\* the page calls webSocketClient.close()
AppClose ==
  /\ client.started
  /\ client.closeCalls < MaxCloses
  /\ LET c == close(client)
     IN  ClientStep("clientClose", 0,
                    [c EXCEPT !.closeCalls = @ + 1,
                              !.socketsAtClose = Len(c.sockets),
                              !.timersAtClose = Len(c.timers)])

\* the open event of socket s
SocketOpen(s) ==
  /\ client.sockets[s].readyState = "CONNECTING"
  /\ ClientStep("socketOpen", s,
                onopen([client EXCEPT !.sockets[s].readyState = "OPEN",
                                      !.sockets[s].opened = TRUE], s))

\* the close event of socket s, after an error event when the connection
\* failed: the peer or the network ended it, or a close() call completed
SocketDown(s, failed) ==
  /\ client.sockets[s].readyState # "CLOSED"
  /\ LET c0 == [client EXCEPT !.sockets[s].readyState = "CLOSED"]
         c1 == IF failed THEN onerror(c0, s) ELSE c0
     IN  ClientStep("socketDown", s, onclose(c1, s))

\* the connection timeout of socket s fires
ConnectionTimeout(s) ==
  /\ client.sockets[s].timeout = "armed"
  /\ ClientStep("connectionTimeout", s,
                connectionTimeout([client EXCEPT !.sockets[s].timeout = "fired"]))

\* a reconnect timer fires
ReconnectTimer(t) ==
  /\ client.timers[t].state = "armed"
  /\ Len(client.sockets) < MaxClientSockets
  /\ ClientStep("reconnect", t,
                reconnectCallback([client EXCEPT !.timers[t].state = "fired"]))

NextClient ==
  \/ AppConnect
  \/ AppClose
  \/ \E s \in 1..Len(client.sockets) : SocketOpen(s)
  \/ \E s \in 1..Len(client.sockets), failed \in BOOLEAN : SocketDown(s, failed)
  \/ \E s \in 1..Len(client.sockets) : ConnectionTimeout(s)
  \/ \E t \in 1..Len(client.timers) : ReconnectTimer(t)

SpecClient == Init /\ [][NextClient]_vars

\* the reconnect attempts made since a socket of the client last opened
FailedAttempts(c) ==
  Cardinality({ i \in 1..Len(c.sockets) :
                  /\ c.sockets[i].by = "reconnect"
                  /\ \A j \in i..Len(c.sockets) : ~c.sockets[j].opened })

ClientOps ==
  {"connect", "clientClose", "socketOpen", "socketDown", "connectionTimeout",
   "reconnect"}

\* C37: client reconnect is bounded.  A close event schedules a reconnect
\* after min(1000 * 2^attempts, 30000) ms exactly when fewer than
\* maxReconnectAttempts attempts have been counted; never more than
\* maxReconnectAttempts reconnect attempts are made without an open in
\* between; an open event resets the counter to 0.
C37_ReconnectBounded ==
  [][ IF ev'.op \in ClientOps
      THEN /\ FailedAttempts(client') <= maxReconnectAttempts
           /\ client'.reconnectAttempts <= maxReconnectAttempts
           /\ ev'.op = "socketOpen" => client'.reconnectAttempts = 0
           /\ ev'.op = "socketDown" =>
                IF client.reconnectAttempts < maxReconnectAttempts
                THEN /\ Len(client'.timers) = Len(client.timers) + 1
                     /\ client'.timers[Len(client'.timers)].state = "armed"
                     /\ client'.timers[Len(client'.timers)].delay =
                          IF client.reconnectAttempts = 0 THEN 1000
                          ELSE IF client.reconnectAttempts = 1 THEN 2000
                          ELSE IF client.reconnectAttempts = 2 THEN 4000
                          ELSE IF client.reconnectAttempts = 3 THEN 8000
                          ELSE 16000
                ELSE client'.timers = client.timers
           /\ ev'.op # "socketDown" => Len(client'.timers) = Len(client.timers)
      ELSE TRUE
    ]_vars

\* the fifth reconnect attempt in a row has failed and the client has given
\* up: its socket is closed and no timer is armed
C37_Witness ==
  /\ ev.op = "socketDown"
  /\ client.closeCalls = 0
  /\ FailedAttempts(client) = maxReconnectAttempts
  /\ client.reconnectAttempts = maxReconnectAttempts
  /\ \A s \in 1..Len(client.sockets) : client.sockets[s].readyState = "CLOSED"
  /\ \A t \in 1..Len(client.timers) : client.timers[t].state = "fired"

\* C38: client close is final.  Once close() has been called the client sets
\* no reconnect timer and creates no socket.
C38_CloseIsFinal ==
  client.closeCalls > 0 =>
    /\ Len(client.timers) = client.timersAtClose
    /\ Len(client.sockets) = client.socketsAtClose


\* ---------------------------------------------- public/audio-handler.js
\* Chunks are numbered in arrival order.  A decode is a playNextAudio call
\* suspended in its awaits (fetch, arrayBuffer, decodeAudioData):
\* [chunk, state], "pending" or "done".  A source is an AudioBufferSourceNode
\* that was started: [chunk, state], "playing", "stopping" (stop(0) called,
\* ended event not yet delivered) or "ended".  player.started logs each
\* source.start(0) with the number of chunks that had arrived when
\* handleInterruption last returned.

\* playNextAudio() up to its first await
playNextAudio(p) ==
  IF p.audioQueue = <<>> THEN [p EXCEPT !.isPlaying = FALSE]
  ELSE [p EXCEPT !.isPlaying = TRUE,
                 !.decodes = Append(@, [chunk |-> Head(p.audioQueue),
                                        state |-> "pending"]),
                 !.audioQueue = Tail(@)]

\* addToAudioQueue(audioData)
addToAudioQueue(p, chunk) ==
  LET p1 == [p EXCEPT !.audioQueue = Append(@, chunk)]
  IN  IF ~p1.isPlaying THEN playNextAudio(p1) ELSE p1

\* playNextAudio() after its awaits: the source is created, stored and started
decodeResolved(p, d) ==
  [p EXCEPT !.decodes[d].state = "done",
            !.sources = Append(@, [chunk |-> p.decodes[d].chunk,
                                   state |-> "playing"]),
            !.currentSource = Len(p.sources) + 1,
            !.started = Append(@, [chunk |-> p.decodes[d].chunk,
                                   cleared |-> p.cleared])]

\* playNextAudio() whose fetch or decode threw: the catch block
decodeRejected(p, d) ==
  playNextAudio([p EXCEPT !.decodes[d].state = "done",
                          !.currentSource = Null])

\* source.onended
onended(p, src) ==
  playNextAudio([p EXCEPT !.sources[src].state = "ended",
                          !.currentSource = Null])

\* handleInterruption()
handleInterruption(p) ==
  LET p1 == IF p.currentSource # Null
            THEN [p EXCEPT !.sources[p.currentSource].state =
                             IF @ = "playing" THEN "stopping" ELSE @,
                           !.currentSource = Null]
            ELSE p
  IN  [p1 EXCEPT !.audioQueue = <<>>, !.isPlaying = FALSE]

PlayerStep(op, arg, p) ==
  /\ player' = p
  /\ ev' = [op |-> op, arg |-> arg, out |-> <<>>, cancels |-> <<>>,
            wrote |-> <<>>, ret |-> "none"]
  /\ UNCHANGED <<session, activeConnections, peer, registry, client>>

\* onAudioData: a binary message arrives
AudioArrives ==
  /\ player.received < MaxReceived
  /\ PlayerStep("addToAudioQueue", player.received + 1,
                [addToAudioQueue(player, player.received + 1)
                   EXCEPT !.received = @ + 1])

\* the awaits of a playNextAudio call resolve
DecodeResolved(d) ==
  /\ player.decodes[d].state = "pending"
  /\ PlayerStep("decodeResolved", d, decodeResolved(player, d))

\* an await of a playNextAudio call rejects
DecodeRejected(d) ==
  /\ player.decodes[d].state = "pending"
  /\ PlayerStep("decodeRejected", d, decodeRejected(player, d))

\* the ended event of a source: it played to its end or stop(0) was called
SourceEnded(src) ==
  /\ player.sources[src].state \in {"playing", "stopping"}
  /\ PlayerStep("onended", src, onended(player, src))

\* onInterrupt: an interrupt message arrives
InterruptArrives ==
  /\ player.interruptions < MaxInterruptions
  /\ PlayerStep("handleInterruption", 0,
                [handleInterruption(player)
                   EXCEPT !.interruptions = @ + 1,
                          !.cleared = player.received])

NextPlayer ==
  \/ AudioArrives
  \/ \E d \in 1..Len(player.decodes) : DecodeResolved(d)
  \/ \E d \in 1..Len(player.decodes) : DecodeRejected(d)
  \/ \E src \in 1..Len(player.sources) : SourceEnded(src)
  \/ InterruptArrives

SpecPlayer == Init /\ [][NextPlayer]_vars

\* C39: client playback respects interruption.  At most one source plays at
\* a time, sources are started in the arrival order of their chunks, and no
\* source is started for a chunk that had arrived when handleInterruption
\* last returned.
C39_PlaybackRespectsInterruption ==
  /\ Cardinality({ src \in 1..Len(player.sources) :
                     player.sources[src].state = "playing" }) <= 1
  /\ \A i, j \in 1..Len(player.started) :
       i < j => player.started[i].chunk < player.started[j].chunk
  /\ \A i \in 1..Len(player.started) :
       player.started[i].chunk > player.started[i].cleared

====
